---------------------------- MODULE Spec2Model ----------------------------
(***************************************************************************)
(* Model of the NuttX simulator's X11 framebuffer and touchscreen drivers, *)
(* built with CONFIG_SIM_MULTI_SCREEN_SUPPORT, CONFIG_SIM_X11FB and        *)
(* without CONFIG_SIM_X11NOSHM (sim_framebuffer.c calls the indexed        *)
(* sim_x11initialize(display, ...) and sim_x11setoffset(i, ...), which     *)
(* only the multi-screen halves of the two other files define):            *)
(*   arch/sim/src/sim/sim_touchscreen.c                                    *)
(*   arch/sim/src/sim/posix/sim_x11framebuffer.c                           *)
(*   arch/sim/src/sim/sim_framebuffer.c                                    *)
(***************************************************************************)
EXTENDS Integers, Sequences, FiniteSets, TLC

(***************************************************************************)
(* Bounds of the model                                                     *)
(***************************************************************************)

\* samples a device takes after one registration when the host delivers the
\* samples of StreamSample: enough to fill the queue and wrap around
MaxPosts == 17

\* samples a device takes after one registration when the host delivers any
\* sample of Samples
MaxFree == 4

\* sim_x11initialize calls, over all displays, that open a host connection
MaxInits == 2

\* host and allocator calls that fail, over a whole run
MaxFaults == 1

\* calls of the operations on a window over a run
MaxCalls == 2

\* colours of a palette
MaxColours == 1

\* calls of sim_x11loop over a run
MaxTicks == 3

\* pan requests the generic layer queues over a run
MaxPans == 3

\* samples passed to a device in use
MaxContacts == 3

\* samples a device takes after one registration under the fair scheduler
MaxDrains == 2

(***************************************************************************)
(* Program constants                                                       *)
(***************************************************************************)

\* sim_touchscreen.c:71
TOUCH_BUF_SIZE == 16

\* the number of screens the build is configured for (sim_touchscreen.c:90,
\* sim_x11framebuffer.c:110-114)
CONFIG_SIM_SCREEN_COUNT == 2

\* nuttx/input/touchscreen.h: the contact flags of a touch point
TOUCH_DOWN == 1
TOUCH_MOVE == 2
TOUCH_UP == 4
TOUCH_ID_VALID == 8
TOUCH_POS_VALID == 16
TOUCH_PRESSURE_VALID == 32

\* the number of framebuffers (sim_framebuffer.c:66-68)
CONFIG_SIM_X11NWINDOWS == 2

\* errno.h
EINVAL == 22
ENODEV == 19

Displays == 0 .. (CONFIG_SIM_SCREEN_COUNT - 1)

\* the indexes callers pass: one below and one above the valid range too
Indexes == (0 - 1) .. CONFIG_SIM_SCREEN_COUNT

\* the minors the board registers a touchscreen for (and the invalid ones);
\* the second screen's device stays unregistered
TscMinors == {0 - 1, 0, CONFIG_SIM_SCREEN_COUNT}

(***************************************************************************)
(* Touchscreen: struct sim_touch_event_s, struct sim_dev_s                 *)
(***************************************************************************)

sim_touch_event_s(x, y, buttons) == [x |-> x, y |-> y, buttons |-> buttons]

\* the raw samples the host delivers
Samples ==
  { sim_touch_event_s(10, 10, 0),
    sim_touch_event_s(10, 10, 1),
    sim_touch_event_s(12, 11, 1) }

\* the sample of the long run that fills the queue: the pointer rests,
\* released, in the window's corner
StreamSample == sim_touch_event_s(0, 0, 0)

\* memset(priv, 0, sizeof(struct sim_dev_s))
ZeroEvent == sim_touch_event_s(0, 0, 0)

ZeroDev ==
  [eventloop |-> 0, id |-> 0, contact |-> 0, minor |-> 0, maxpoint |-> 0,
   buf |-> [i \in 0 .. (TOUCH_BUF_SIZE - 1) |-> ZeroEvent],
   head |-> 0, tail |-> 0]

\* a field of a report the worker never assigned (struct touch_sample_s is an
\* uninitialized local of sim_touch_worker)
Unset == 0 - 1

VARIABLES
  g_simtouchscreen,  \* [Displays -> sim_dev_s]
  work,              \* [Displays -> BOOLEAN]: priv->work is queued on HPWORK
  registered,        \* the devices touch_register'ed and not unregistered
  pcP,               \* the producer's position in sim_buttonevent
  pL,                \* the producer's locals
  pcW,               \* the worker's position in sim_touch_worker
  wL,                \* the worker's locals
  reports,           \* [Displays -> Seq]: the samples given to touch_event
  posted,            \* [Displays -> Seq]: the samples sim_buttonevent took
                     \*   (next != tail), in call order, since registration
  loaded,            \* [Displays -> Seq]: the values the worker read
  drained,           \* [Displays -> Seq]: the values the worker processed
  popped,            \* [Displays -> Nat]: tail stores since registration
  earlyRead,         \* [Displays -> BOOLEAN]: the worker read a slot before
                     \*   the producer's stores to it were made
  overwritten,       \* [Displays -> BOOLEAN]: the producer wrote a slot whose
                     \*   sample the worker had not read yet
  dropped            \* [Displays -> BOOLEAN]: a sample was dropped, the
                     \*   queue being full

touchvars ==
  <<g_simtouchscreen, work, registered, pcP, pL, pcW, wL, reports, posted,
    loaded, drained, popped, earlyRead, overwritten, dropped>>

(***************************************************************************)
(* Framebuffer: struct sim_x11window_s, struct sim_fb_s, and the host (the *)
(* X server, the System V shared memory and the allocator) as the code     *)
(* sees it.                                                                *)
(***************************************************************************)
VARIABLES
  kconfig,           \* the build's CONFIG_SIM_FB* values
  xserver,           \* the host: the root window's depth, MIT-SHM or not
  g_x11_windows,     \* [Displays -> sim_x11window_s]
  g_fb,              \* [Displays -> sim_fb_s]
  res,               \* every resource the host or the allocator handed out
  bad,               \* host and allocator calls made on what is not held
  atexit_registered, \* sim_x11mapsharedmem's static flag
  atexit_handlers,   \* the registrations of sim_x11uninit atexit holds in
                     \*   the single-screen build
  proc,              \* "running", "exited" (the atexit handlers ran)
  last,              \* the last framebuffer operation: what it returned and
                     \*   the host and allocator calls it made, in order
  ninits,            \* sim_x11initialize calls that opened a host connection
  nfaults            \* host and allocator calls that failed

fbvars ==
  <<kconfig, xserver, g_x11_windows, g_fb, res, bad, atexit_registered, atexit_handlers,
    proc, last, ninits, nfaults>>

(***************************************************************************)
(* What the framebuffers hold and what the host shows                      *)
(***************************************************************************)
VARIABLES
  mem,               \* the pixels written, by the buffer and the byte offset
  screen,            \* [Displays -> the window: mapped or not, its frame]
  called,            \* the last call of an indexed operation
  ndraws             \* the drawing operations made

drawvars == <<mem, screen, called, ndraws>>

(***************************************************************************)
(* sim_x11loop's clock and the pan requests of the generic layer           *)
(***************************************************************************)
VARIABLES
  clock,             \* the last reading of host_gettime, in ns
  sim_x11loop_last,  \* sim_x11loop's static last
  paninfo,           \* [Displays -> the pan requests queued, oldest first]
  bodies,            \* the readings at which sim_x11loop's body ran
  nticks,            \* the calls of sim_x11loop made
  npans              \* the pan requests queued

loopvars == <<clock, sim_x11loop_last, paninfo, bodies, nticks, npans>>

vars == <<touchvars, fbvars, drawvars, loopvars>>

\* a and b: the two memory accesses of a step that the hardware or the
\* compiler may order either way have been made
NoLocals == [dev |-> 0, s |-> ZeroEvent, next |-> 0, a |-> FALSE, b |-> FALSE]

EmptySeqs == [d \in Displays |-> <<>>]

AllFalse == [d \in Displays |-> FALSE]

TouchInit ==
  /\ g_simtouchscreen = [d \in Displays |-> ZeroDev]
  /\ work = AllFalse
  /\ registered = {}
  /\ pcP = "idle"
  /\ pL = NoLocals
  /\ pcW = "idle"
  /\ wL = NoLocals
  /\ reports = EmptySeqs
  /\ posted = EmptySeqs
  /\ loaded = EmptySeqs
  /\ drained = EmptySeqs
  /\ popped = [d \in Displays |-> 0]
  /\ earlyRead = AllFalse
  /\ overwritten = AllFalse
  /\ dropped = AllFalse

\* NextIndex with the wrap test off by one
NextIndex_late(i) == IF i + 1 > TOUCH_BUF_SIZE THEN 0 ELSE i + 1

\* next = index + 1; if (next >= TOUCH_BUF_SIZE) next = 0;
NextIndex(i) == IF i + 1 >= TOUCH_BUF_SIZE THEN 0 ELSE i + 1

\* HasRoom without the test of tail
HasRoom_always(next, tail) == TRUE

\* if (next != priv->tail): the queue has room for one more sample
HasRoom(next, tail) == next # tail

\* the event loop is taken to run on every device
Stopped_never(priv) ==
  FALSE

\* if (priv->eventloop == 0) return;
Stopped(priv) ==
  priv.eventloop = 0

\* the samples whose stores to buf the producer has made
Written(d) ==
  Len(posted[d]) - (IF pcP = "store" /\ pL.dev = d /\ ~pL.a THEN 1 ELSE 0)

\* the samples whose store to head the producer has made
Published(d) ==
  Len(posted[d]) - (IF pcP = "store" /\ pL.dev = d /\ ~pL.b THEN 1 ELSE 0)

\* the device is at rest: no sim_buttonevent call is in progress, no worker
\* invocation is queued or running
Quiescent ==
  /\ pcP = "idle"
  /\ pcW = "idle"
  /\ \A d \in Displays : ~work[d]

(***************************************************************************)
(* sim_tsc_initialize(minor).  The board registers a device while nothing  *)
(* uses it; touch_register may fail.                                       *)
(***************************************************************************)
sim_tsc_initialize(minor, regok) ==
  /\ Quiescent
  /\ IF minor < 0 \/ minor >= CONFIG_SIM_SCREEN_COUNT
       THEN UNCHANGED touchvars
       ELSE /\ g_simtouchscreen' =
                 [g_simtouchscreen EXCEPT
                    ![minor] = [ZeroDev EXCEPT !.minor = minor,
                                               !.maxpoint = 1,
                                               !.eventloop =
                                                  IF regok THEN 1 ELSE 0]]
            /\ registered' = IF regok THEN registered \cup {minor}
                             ELSE registered
            /\ reports' = [reports EXCEPT ![minor] = <<>>]
            /\ posted' = [posted EXCEPT ![minor] = <<>>]
            /\ loaded' = [loaded EXCEPT ![minor] = <<>>]
            /\ drained' = [drained EXCEPT ![minor] = <<>>]
            /\ popped' = [popped EXCEPT ![minor] = 0]
            /\ earlyRead' = [earlyRead EXCEPT ![minor] = FALSE]
            /\ overwritten' = [overwritten EXCEPT ![minor] = FALSE]
            /\ dropped' = [dropped EXCEPT ![minor] = FALSE]
            /\ UNCHANGED <<work, pcP, pL, pcW, wL>>

(***************************************************************************)
(* sim_tsc_uninitialize(): every device whose event loop runs is stopped   *)
(* and unregistered.                                                       *)
(***************************************************************************)
sim_tsc_uninitialize ==
  /\ \E d \in Displays : g_simtouchscreen[d].eventloop # 0
  /\ g_simtouchscreen' =
       [d \in Displays |-> [g_simtouchscreen[d] EXCEPT !.eventloop = 0]]
  /\ registered' =
       registered \ {d \in Displays : g_simtouchscreen[d].eventloop # 0}
  /\ UNCHANGED <<work, pcP, pL, pcW, wL, reports, posted, loaded, drained,
                 popped, earlyRead, overwritten, dropped>>

(***************************************************************************)
(* sim_buttonevent(display, x, y, buttons): the producer.  head and tail   *)
(* are volatile int, buf is plain memory and there is no barrier: the      *)
(* stores to buf[head] and the store to head reach the worker in either    *)
(* order.  work_queue is a call into the scheduler and follows both.       *)
(***************************************************************************)
sim_buttonevent_call(display, s) ==
  /\ pcP = "idle"
  /\ IF display < 0 \/ display >= CONFIG_SIM_SCREEN_COUNT
       THEN UNCHANGED <<pcP, pL, posted, dropped>>
       ELSE IF Stopped(g_simtouchscreen[display])
         THEN UNCHANGED <<pcP, pL, posted, dropped>>
         ELSE LET next == NextIndex(g_simtouchscreen[display].head) IN
              IF HasRoom(next, g_simtouchscreen[display].tail)
                THEN /\ pcP' = "store"
                     /\ pL' = [dev |-> display, s |-> s, next |-> next,
                               a |-> FALSE, b |-> FALSE]
                     /\ posted' = [posted EXCEPT ![display] = Append(@, s)]
                     /\ UNCHANGED dropped
                ELSE /\ dropped' = [dropped EXCEPT ![display] = TRUE]
                     /\ UNCHANGED <<pcP, pL, posted>>
  /\ UNCHANGED <<g_simtouchscreen, work, registered, pcW, wL, reports,
                 loaded, drained, popped, earlyRead, overwritten>>

\* priv->buf[priv->head].x = x; .y = y; .buttons = buttons;
\* The slot last held the sample posted TOUCH_BUF_SIZE samples earlier.
sim_buttonevent_write ==
  /\ pcP = "store"
  /\ ~pL.a
  /\ LET d == pL.dev
         h == (pL.next + TOUCH_BUF_SIZE - 1) % TOUCH_BUF_SIZE
     IN /\ g_simtouchscreen' =
             [g_simtouchscreen EXCEPT ![d].buf[h] = pL.s]
        /\ overwritten' =
             [overwritten EXCEPT
                ![d] = @ \/ Len(loaded[d]) < Len(posted[d]) - TOUCH_BUF_SIZE]
  /\ pL' = [pL EXCEPT !.a = TRUE]
  /\ UNCHANGED <<work, registered, pcP, pcW, wL, reports, posted, loaded,
                 drained, popped, earlyRead, dropped>>

\* priv->head = next;
sim_buttonevent_publish ==
  /\ pcP = "store"
  /\ ~pL.b
  /\ g_simtouchscreen' = [g_simtouchscreen EXCEPT ![pL.dev].head = pL.next]
  /\ pL' = [pL EXCEPT !.b = TRUE]
  /\ UNCHANGED <<work, registered, pcP, pcW, wL, reports, posted, loaded,
                 drained, popped, earlyRead, overwritten, dropped>>

\* work_queue(HPWORK, &priv->work, sim_touch_worker, priv, 0);
sim_buttonevent_workqueue ==
  /\ pcP = "store"
  /\ pL.a /\ pL.b
  /\ work' = [work EXCEPT ![pL.dev] = TRUE]
  /\ pcP' = "idle"
  /\ pL' = NoLocals
  /\ UNCHANGED <<g_simtouchscreen, registered, pcW, wL, reports, posted,
                 loaded, drained, popped, earlyRead, overwritten, dropped>>

(***************************************************************************)
(* sim_touch_worker(priv): the consumer, run by the HPWORK queue.          *)
(***************************************************************************)

\* priv->id++ on an id wider than uint8_t
NextId_wide(id) ==
  id + 1

\* priv->id++, id being a uint8_t
NextId(id) ==
  (id + 1) % 256

\* the report without the size and the pressure the worker fills in
touch_sample_s_bare(flags, x, y, id) ==
  [npoints |-> 1, flags |-> flags, x |-> x, y |-> y, h |-> Unset,
   w |-> Unset, pressure |-> Unset, id |-> id]

\* struct touch_sample_s with npoints == 1 and point[0]
touch_sample_s(flags, x, y, id) ==
  [npoints |-> 1, flags |-> flags, x |-> x, y |-> y, h |-> 1, w |-> 1,
   pressure |-> 42, id |-> id]

\* The contact logic of one loop iteration, for the sample s: the new contact
\* and id, and the report given to touch_event (emit) if there is one.
ContactStep(contact, id, s) ==
  IF ~(s.buttons # 0)
    THEN IF contact = TOUCH_UP
           THEN [contact |-> contact, id |-> id, emit |-> FALSE,
                 report |-> touch_sample_s(0, Unset, Unset, id)]
           ELSE [contact |-> TOUCH_UP, id |-> id, emit |-> TRUE,
                 report |-> touch_sample_s(TOUCH_UP + TOUCH_ID_VALID,
                                           Unset, Unset, id)]
    ELSE IF contact = TOUCH_UP
           THEN [contact |-> TOUCH_DOWN, id |-> NextId(id),
                 emit |-> TRUE,
                 report |-> touch_sample_s(TOUCH_DOWN + TOUCH_ID_VALID
                                             + TOUCH_POS_VALID
                                             + TOUCH_PRESSURE_VALID,
                                           s.x, s.y, NextId(id))]
           ELSE [contact |-> TOUCH_MOVE, id |-> id, emit |-> TRUE,
                 report |-> touch_sample_s(TOUCH_MOVE + TOUCH_ID_VALID
                                             + TOUCH_POS_VALID
                                             + TOUCH_PRESSURE_VALID,
                                           s.x, s.y, id)]

\* the HPWORK thread takes priv->work off its queue and calls the worker
sim_touch_worker_start(d) ==
  /\ pcW = "idle"
  /\ work[d]
  /\ work' = [work EXCEPT ![d] = FALSE]
  /\ pcW' = "test"
  /\ wL' = [NoLocals EXCEPT !.dev = d]
  /\ UNCHANGED <<g_simtouchscreen, registered, pcP, pL, reports, posted,
                 loaded, drained, popped, earlyRead, overwritten, dropped>>

\* the loop left while one sample is still queued
Pending_butone(priv) ==
  priv.head # priv.tail /\ priv.head # NextIndex(priv.tail)

\* priv->head != priv->tail: a sample is queued
Pending(priv) ==
  priv.head # priv.tail

\* while (priv->head != priv->tail)
sim_touch_worker_test ==
  /\ pcW = "test"
  /\ LET priv == g_simtouchscreen[wL.dev] IN
     IF Pending(priv)
       THEN /\ pcW' = "pop"
            /\ wL' = [wL EXCEPT !.next = NextIndex(priv.tail),
                                !.a = FALSE, !.b = FALSE]
       ELSE /\ pcW' = "idle"
            /\ wL' = NoLocals
  /\ UNCHANGED <<g_simtouchscreen, work, registered, pcP, pL, reports,
                 posted, loaded, drained, popped, earlyRead, overwritten, dropped>>

\* int x = priv->buf[priv->tail].x; y, buttons likewise.  buf is plain
\* memory: the loads and the store to tail take effect in either order.
sim_touch_worker_load ==
  /\ pcW = "pop"
  /\ ~wL.a
  /\ LET d == wL.dev
         t == (wL.next + TOUCH_BUF_SIZE - 1) % TOUCH_BUF_SIZE
     IN /\ wL' = [wL EXCEPT !.s = g_simtouchscreen[d].buf[t], !.a = TRUE]
        /\ loaded' = [loaded EXCEPT
                        ![d] = Append(@, g_simtouchscreen[d].buf[t])]
        /\ earlyRead' = [earlyRead EXCEPT
                           ![d] = @ \/ Written(d) < Len(loaded[d]) + 1]
  /\ UNCHANGED <<g_simtouchscreen, work, registered, pcP, pL, pcW, reports,
                 posted, drained, popped, overwritten, dropped>>

\* priv->tail = next;
sim_touch_worker_storetail ==
  /\ pcW = "pop"
  /\ ~wL.b
  /\ g_simtouchscreen' = [g_simtouchscreen EXCEPT ![wL.dev].tail = wL.next]
  /\ popped' = [popped EXCEPT ![wL.dev] = @ + 1]
  /\ wL' = [wL EXCEPT !.b = TRUE]
  /\ UNCHANGED <<work, registered, pcP, pL, pcW, reports, posted, loaded,
                 drained, earlyRead, overwritten, dropped>>

\* the rest of the loop body: the contact logic and touch_event
sim_touch_worker_process ==
  /\ pcW = "pop"
  /\ wL.a /\ wL.b
  /\ LET d == wL.dev
         r == ContactStep(g_simtouchscreen[d].contact,
                          g_simtouchscreen[d].id, wL.s)
     IN /\ g_simtouchscreen' =
             [g_simtouchscreen EXCEPT ![d].contact = r.contact,
                                      ![d].id = r.id]
        /\ reports' = IF r.emit
                        THEN [reports EXCEPT ![d] = Append(@, r.report)]
                        ELSE reports
        /\ drained' = [drained EXCEPT ![d] = Append(@, wL.s)]
  /\ pcW' = "test"
  /\ UNCHANGED <<work, registered, pcP, pL, wL, posted, loaded, popped,
                 earlyRead, overwritten, dropped>>

(***************************************************************************)
(* Framebuffer: the build and the host                                     *)
(***************************************************************************)

\* CONFIG_SIM_FBBPP, CONFIG_SIM_FBWIDTH, CONFIG_SIM_FBHEIGHT,
\* CONFIG_SIM_FRAMEBUFFER_COUNT and CONFIG_SIM_FB_INTERVAL_LINE of a build
Kconfig(bpp, width, height, fbcount, interval) ==
  [bpp |-> bpp, width |-> width, height |-> height, fbcount |-> fbcount,
   interval |-> interval]

\* the host of a run: the depth XGetWindowAttributes reports for the root
\* window, and what XShmQueryExtension answers
XServer(depth, shm) == [depth |-> depth, shm |-> shm]

\* the builds and hosts of the model: the same depth, a 24-bit host for a
\* 16-bit and for a 32-bit build, a host without MIT-SHM, two hosts whose
\* depth the build does not have
Platforms ==
  { [kconfig |-> Kconfig(16, 320, 240, 2, 0), xserver |-> XServer(16, TRUE)],
    [kconfig |-> Kconfig(16, 320, 240, 2, 0), xserver |-> XServer(24, TRUE)],
    [kconfig |-> Kconfig(32, 320, 240, 1, 0), xserver |-> XServer(24, TRUE)],
    [kconfig |-> Kconfig(32, 320, 240, 2, 8), xserver |-> XServer(32, FALSE)],
    [kconfig |-> Kconfig(32, 320, 240, 1, 0), xserver |-> XServer(16, TRUE)],
    [kconfig |-> Kconfig(16, 320, 240, 2, 8), xserver |-> XServer(8, TRUE)] }

\* a pointer: the resource it points into (0: NULL) and the byte offset
Ptr(base, off) == [base |-> base, off |-> off]

NULL == Ptr(0, 0)

\* (char *)-1, what a failed shmat returns
ShmatFailed == Ptr(0 - 1, 0)

\* a static struct sim_x11window_s (the fields the model follows; xshminfo's
\* shmid and shmaddr are fields of their own)
ZeroWin ==
  [display |-> 0, image |-> 0, framebuffer |-> NULL, fbpixelwidth |-> 0,
   fbpixelheight |-> 0, fbbpp |-> 0, fblen |-> 0, shmcheckpoint |-> 0,
   useshm |-> 0, trans_framebuffer |-> NULL, offset |-> 0, xerror |-> 0,
   shmid |-> 0, shmaddr |-> NULL]

ZeroPlane ==
  [fbmem |-> NULL, fblen |-> 0, stride |-> 0, display |-> 0, bpp |-> 0,
   xres_virtual |-> 0, yres_virtual |-> 0]

\* a static struct sim_fb_s, and memset(fb, 0, sizeof(struct sim_fb_s))
ZeroFb ==
  [initialized |-> 0, displayno |-> 0, power |-> 0, planeinfo |-> ZeroPlane,
   videoinfo |-> [xres |-> 0, yres |-> 0, nplanes |-> 0]]

\* a resource of the host or of the allocator: kind is "conn" (XOpenDisplay),
\* "shmimage" (XShmCreateImage), "image" (XCreateImage), "seg" (shmget),
\* "shmat", "xattach" (XShmAttach) or "heap" (malloc); rel counts its
\* releases; data is an image's data pointer; of is the segment of an
\* attachment; owner is the window it was acquired for
Resource(kind, size, data, of) ==
  [kind |-> kind, live |-> TRUE, rel |-> 0, size |-> size, data |-> data,
   of |-> of, owner |-> 0]

\* the operation in progress: the window it works on, the host's state, the
\* installed X error handler and g_current_init_window
Machine(d) ==
  [d |-> d, w |-> IF d \in Displays THEN g_x11_windows[d] ELSE ZeroWin,
   res |-> res, bad |-> bad, calls |-> <<>>,
   faults |-> 0, handler |-> "default", cur |-> 0 - 1,
   atexit |-> atexit_registered]

\* a host or allocator call is made; ok: it succeeded
Logged(m, f, ok) ==
  [m EXCEPT !.calls = Append(@, [f |-> f, d |-> m.d, ok |-> ok]),
            !.faults = IF ok THEN @ ELSE @ + 1]

\* the host or the allocator hands out a resource
Alloc(m, f, r) ==
  [Logged(m, f, TRUE) EXCEPT !.res = Append(@, [r EXCEPT !.owner = m.d])]

\* a call is made on what the caller does not hold
Invalid(m, f) == [m EXCEPT !.bad = @ \cup {f}]

\* the host or the allocator takes back resource id, which must be of kind
Release(m, f, id, kind) ==
  LET m1 == Logged(m, f, TRUE)
  IN IF id \in 1 .. Len(m.res) /\ m.res[id].kind = kind /\ m.res[id].live
       THEN [m1 EXCEPT !.res[id].live = FALSE, !.res[id].rel = @ + 1]
       ELSE IF id \in 1 .. Len(m.res) /\ m.res[id].kind = kind
              THEN Invalid([m1 EXCEPT !.res[id].rel = @ + 1], f)
              ELSE Invalid(m1, f)

\* free(ptr)
free(m, ptr) ==
  IF ptr = NULL THEN Logged(m, "free", TRUE)
  ELSE IF ptr.off # 0 THEN Invalid(Logged(m, "free", TRUE), "free")
  ELSE Release(m, "free", ptr.base, "heap")

\* XDestroyImage(image): the image structure, and for an image of
\* XCreateImage its data too
XDestroyImage(m, image) ==
  IF image \notin 1 .. Len(m.res)
    THEN Invalid(Logged(m, "XDestroyImage", TRUE), "XDestroyImage")
    ELSE IF m.res[image].kind = "image"
           THEN free(Release(m, "XDestroyImage", image, "image"),
                     m.res[image].data)
           ELSE Release(m, "XDestroyImage", image, "shmimage")

\* the host's attachment of segment shmid made over connection display
XAttachments(m, display, shmid) ==
  { i \in 1 .. Len(m.res) :
      /\ m.res[i].kind = "xattach"
      /\ m.res[i].live
      /\ m.res[i].of = shmid
      /\ m.res[i].data = Ptr(display, 0) }

\* XShmDetach(display, &xshminfo)
XShmDetach(m, display, shmid) ==
  IF XAttachments(m, display, shmid) = {}
    THEN Invalid(Logged(m, "XShmDetach", TRUE), "XShmDetach")
    ELSE Release(m, "XShmDetach",
                 CHOOSE i \in XAttachments(m, display, shmid) : TRUE,
                 "xattach")

\* shmdt(shmaddr)
shmdt(m, shmaddr) ==
  IF shmaddr.off # 0 THEN Invalid(Logged(m, "shmdt", TRUE), "shmdt")
  ELSE Release(m, "shmdt", shmaddr.base, "shmat")

\* shmctl(shmid, IPC_RMID, 0)
shmctl_RMID(m, shmid) == Release(m, "shmctl", shmid, "seg")

\* XCloseDisplay(display)
XCloseDisplay(m, display) == Release(m, "XCloseDisplay", display, "conn")


(***************************************************************************)
(* sim_x11framebuffer.c: acquisition and release of a window's buffers     *)
(***************************************************************************)

\* the outcomes of the host and allocator calls of one sim_x11initialize:
\* TRUE is success; xerr1 and xerr2 are FALSE when the X server reports an
\* error for XShmCreateImage, for XShmAttach
Outcomes ==
  [open : BOOLEAN, shmimage : BOOLEAN, xerr1 : BOOLEAN, shmget : BOOLEAN,
   shmat : BOOLEAN, attach : BOOLEAN, xerr2 : BOOLEAN, malloc : BOOLEAN,
   ximage : BOOLEAN, trans : BOOLEAN]

\* every call succeeds
NoFailure == [f \in DOMAIN (CHOOSE o \in Outcomes : TRUE) |-> TRUE]

\* bytes_per_line of an image the X library lays out: a pixel of depth 24
\* takes 32 bits, scanlines are padded to 32 bits
BytesPerLine(depth, width) ==
  LET bits == IF depth = 24 THEN 32 ELSE depth
  IN ((bits * width + 31) \div 32) * 4

\* sim_x11uninitialize(win)
sim_x11uninitialize(m) ==
  LET m1 == IF /\ m.w.shmcheckpoint > 1
               /\ m.w.useshm = 0
               /\ m.w.framebuffer # NULL
              THEN [free(m, m.w.framebuffer) EXCEPT !.w.framebuffer = NULL]
              ELSE m
  IN IF m1.w.shmcheckpoint > 0
       THEN [m1 EXCEPT !.w.shmcheckpoint = 1]
       ELSE m1

\* sim_x11traperrors(win)
sim_x11traperrors(m) ==
  [m EXCEPT !.w.xerror = 0, !.cur = m.d, !.handler = "sim_x11errorhandler"]

\* the X library calls the installed handler: sim_x11errorhandler does
\* nothing, sim_x11errorhandler_wrapper flags g_current_init_window
XErrorEvent(m) ==
  LET m1 == Logged(m, "XErrorEvent", FALSE)
  IN IF m.handler = "sim_x11errorhandler_wrapper" /\ m.cur = m.d
       THEN [m1 EXCEPT !.w.xerror = 1]
       ELSE m1

\* sim_x11untraperrors(win), which returns win->xerror; XSync delivers the
\* error the server reported, if one
sim_x11untraperrors(m, xerr) ==
  [(IF xerr THEN XErrorEvent(m) ELSE m) EXCEPT !.handler = "default",
                                               !.cur = 0 - 1]

\* the value of F at x, x being evaluated once: the statements of a function
\* run one after the other, each on the state the one before it left
Then(x, F(_)) == CHOOSE r \in { F(v) : v \in {x} } : TRUE

\* win->framebuffer = malloc(size)
malloc_framebuffer(m, ok, size) ==
  IF ok
    THEN [Alloc(m, "malloc(framebuffer)", Resource("heap", size, NULL, 0))
            EXCEPT !.w.framebuffer = Ptr(Len(m.res) + 1, 0)]
    ELSE [Logged(m, "malloc(framebuffer)", FALSE) EXCEPT
            !.w.framebuffer = NULL]

\* win->image = XCreateImage(..., win->framebuffer, ...)
XCreateImage(m, ok) ==
  IF ok
    THEN [Alloc(m, "XCreateImage", Resource("image", 0, m.w.framebuffer, 0))
            EXCEPT !.w.image = Len(m.res) + 1]
    ELSE [Logged(m, "XCreateImage", FALSE) EXCEPT !.w.image = 0]

\* win->image = XShmCreateImage(...)
XShmCreateImage(m, ok) ==
  IF ok
    THEN [Alloc(m, "XShmCreateImage", Resource("shmimage", 0, NULL, 0))
            EXCEPT !.w.image = Len(m.res) + 1]
    ELSE [Logged(m, "XShmCreateImage", FALSE) EXCEPT !.w.image = 0]

\* win->xshminfo.shmid = shmget(IPC_PRIVATE, size, IPC_CREAT | 0777)
shmget(m, ok, size) ==
  IF ok
    THEN [Alloc(m, "shmget", Resource("seg", size, NULL, 0))
            EXCEPT !.w.shmid = Len(m.res) + 1]
    ELSE [Logged(m, "shmget", FALSE) EXCEPT !.w.shmid = 0 - 1]

\* win->image->data = (char *)shmat(win->xshminfo.shmid, 0, 0)
shmat(m, ok) ==
  IF ok
    THEN [Alloc(m, "shmat",
                Resource("shmat", m.res[m.w.shmid].size, NULL, m.w.shmid))
            EXCEPT !.res[m.w.image].data = Ptr(Len(m.res) + 1, 0)]
    ELSE [Logged(m, "shmat", FALSE) EXCEPT !.res[m.w.image].data = ShmatFailed]

\* result = XShmAttach(win->display, &win->xshminfo): the host attaches the
\* segment unless the call fails or the server reports an error
XShmAttach(m, ok, xerr) ==
  IF ok /\ ~xerr
    THEN Alloc(m, "XShmAttach",
               Resource("xattach", 0, Ptr(m.w.display, 0), m.w.shmid))
    ELSE Logged(m, "XShmAttach", ok)

\* sim_x11mapsharedmem from the label shmerror on
sim_x11mapsharedmem_shmerror(m0, o, depth, fblen, fbcount, interval) ==
  LET fbinterval == ((depth * m0.w.fbpixelwidth) \div 8) * interval
      size == fblen * fbcount + fbinterval * (fbcount - 1)
  IN Then(malloc_framebuffer([m0 EXCEPT !.w.useshm = 0], o.malloc, size),
          LAMBDA m1 :
     Then(XCreateImage(m1, o.ximage), LAMBDA m2 :
       IF m2.w.image = 0
         THEN [m |-> m2, ret |-> 0 - 1]
         ELSE [m |-> [m2 EXCEPT !.w.shmcheckpoint = @ + 1], ret |-> 0]))

\* sim_x11mapsharedmem(win, depth, fblen, fbcount, interval)
sim_x11mapsharedmem(m0, o, depth, fblen, fbcount, interval) ==
  LET shmerror(m) ==
        Then(sim_x11uninitialize(m), LAMBDA u :
          sim_x11mapsharedmem_shmerror(u, o, depth, fblen, fbcount, interval))
      size == BytesPerLine(depth, m0.w.fbpixelwidth) *
                (m0.w.fbpixelheight * fbcount + interval * (fbcount - 1))
  IN
  Then([m0 EXCEPT !.atexit = TRUE, !.w.shmcheckpoint = 1, !.w.useshm = 0],
       LAMBDA m1 :
  IF ~xserver.shm
    THEN sim_x11mapsharedmem_shmerror(m1, o, depth, fblen, fbcount, interval)
    ELSE
  \* XShmCreateImage between sim_x11traperrors and sim_x11untraperrors
  Then(sim_x11traperrors([m1 EXCEPT
                            !.w.useshm = 1,
                            !.handler = "sim_x11errorhandler_wrapper"]),
       LAMBDA a1 :
  Then(XShmCreateImage(a1, o.shmimage), LAMBDA a2 :
  Then(sim_x11untraperrors(a2, ~o.xerr1), LAMBDA a3 :
  IF a3.w.xerror # 0 THEN shmerror(a3)
  ELSE IF a3.w.image = 0 THEN [m |-> a3, ret |-> 0 - 1]
  ELSE
  Then(shmget([a3 EXCEPT !.w.shmcheckpoint = @ + 1], o.shmget, size),
       LAMBDA b1 :
  IF b1.w.shmid < 0 THEN shmerror(b1)
  ELSE
  Then(shmat([b1 EXCEPT !.w.shmcheckpoint = @ + 1], o.shmat), LAMBDA c1 :
  IF c1.res[c1.w.image].data = ShmatFailed THEN shmerror(c1)
  ELSE
  \* XShmAttach between sim_x11traperrors and sim_x11untraperrors
  Then(sim_x11traperrors([c1 EXCEPT
                            !.w.shmcheckpoint = @ + 1,
                            !.w.shmaddr = c1.res[c1.w.image].data]),
       LAMBDA d1 :
  Then(XShmAttach(d1, o.attach, ~o.xerr2), LAMBDA d2 :
  Then(sim_x11untraperrors(d2, ~o.xerr2), LAMBDA d3 :
  IF d3.w.xerror # 0 \/ ~o.attach THEN shmerror(d3)
  ELSE [m |-> [d3 EXCEPT !.w.framebuffer = d3.res[d3.w.image].data,
                         !.w.shmcheckpoint = @ + 1],
        ret |-> 0])))))))))

\* what sim_x11initialize returns: the machine, the plane its output
\* parameters point into, its value, whether it opened a connection, whether
\* it called sim_x11mapsharedmem and what that returned
Returned(m, plane, ret, opened, mapped, mapret) ==
  [m |-> m, plane |-> plane, ret |-> ret, opened |-> opened,
   mapped |-> mapped, mapret |-> mapret]

\* display = XOpenDisplay(NULL), in sim_x11createframe
XOpenDisplay(m, ok) ==
  IF ok
    THEN Alloc(m, "XOpenDisplay", Resource("conn", 0, NULL, 0))
    ELSE Logged(m, "XOpenDisplay", FALSE)

\* win->trans_framebuffer = malloc(size)
malloc_trans_framebuffer(m, ok, size) ==
  IF ok
    THEN [Alloc(m, "malloc(trans_framebuffer)",
                Resource("heap", size, NULL, 0))
            EXCEPT !.w.trans_framebuffer = Ptr(Len(m.res) + 1, 0)]
    ELSE [Logged(m, "malloc(trans_framebuffer)", FALSE) EXCEPT
            !.w.trans_framebuffer = NULL]

\* the index test with its upper limit left out
OutOfRange_below(display_idx) ==
  display_idx < 0

\* display_idx < 0 || display_idx >= CONFIG_SIM_SCREEN_COUNT
OutOfRange(display_idx) ==
  display_idx < 0 \/ display_idx >= CONFIG_SIM_SCREEN_COUNT

\* depth = windowattributes.depth; if (depth == 24) depth = 32
NormalisedDepth(depth) == IF depth = 24 THEN 32 ELSE depth

\* the depth check without its exemption of the 16-bit builds
UnsupportedDepth_strict(depth) ==
  depth # kconfig.bpp /\ depth # 32

\* depth != CONFIG_SIM_FBBPP && depth != 32 && CONFIG_SIM_FBBPP != 16
UnsupportedDepth(depth) ==
  depth # kconfig.bpp /\ depth # 32 /\ kconfig.bpp # 16

\* sim_x11initialize(display_idx, width, height, &fbmem, &fblen, &bpp,
\*                   &stride, fbcount, interval)
sim_x11initialize(display_idx, width, height, plane, fbcount, interval, o) ==
  LET depth == NormalisedDepth(xserver.depth)
      stride == ((depth * width) \div 8) % 65536
      fblen == stride * height
      p1 == [plane EXCEPT !.bpp = depth % 256, !.stride = stride,
                          !.fblen = fblen]
      \* the conversion framebuffer
      converts == depth = 32 /\ kconfig.bpp = 16
      tstride == ((kconfig.bpp * width) \div 8) % 65536
      tfblen == tstride * height
      tsize == tfblen * fbcount + (tstride * interval) * (fbcount - 1)
      p2 == [p1 EXCEPT !.bpp = kconfig.bpp, !.stride = tstride,
                       !.fblen = tfblen]
      Final(p) == IF interval = 0 THEN [p EXCEPT !.fblen = @ * fbcount] ELSE p
  IN
  Then(Machine(display_idx), LAMBDA m0 :
  IF OutOfRange(display_idx)
    THEN Returned(m0, plane, 0 - EINVAL, FALSE, FALSE, 0)
    ELSE
  Then([m0 EXCEPT !.w.fbpixelwidth = width, !.w.fbpixelheight = height],
       LAMBDA m1 :
  IF fbcount < 1 THEN Returned(m1, plane, 0 - EINVAL, FALSE, FALSE, 0)
  ELSE
  Then(XOpenDisplay(m1, o.open), LAMBDA m2 :
  IF ~o.open THEN Returned(m2, plane, 0 - ENODEV, FALSE, FALSE, 0)
  ELSE
  Then([m2 EXCEPT !.w.display = Len(m2.res)], LAMBDA m3 :
  IF UnsupportedDepth(depth)
    THEN Returned(m3, plane, 0 - 1, TRUE, FALSE, 0)
    ELSE
  Then(sim_x11mapsharedmem(m3, o, xserver.depth, fblen, fbcount, interval),
       LAMBDA r :
  Then([r.m EXCEPT !.w.fbbpp = depth, !.w.fblen = fblen], LAMBDA m4 :
  IF ~converts
    THEN Returned(m4, Final([p1 EXCEPT !.fbmem = m4.w.framebuffer]), 0, TRUE,
                  TRUE, r.ret)
    ELSE
  Then(malloc_trans_framebuffer(m4, o.trans, tsize), LAMBDA m5 :
  IF m5.w.trans_framebuffer = NULL
    THEN Returned(m5, p2, 0 - 1, TRUE, TRUE, r.ret)
    ELSE Returned(m5, Final([p2 EXCEPT !.fbmem = m5.w.trans_framebuffer]), 0,
                  TRUE, TRUE, r.ret))))))))

\* the tests of sim_x11uninit's loop, with shmdt and XShmDetach exchanged
sim_x11uninit_undo_exchanged(m, step) ==
  LET w == m.w
  IN CASE step = 1 /\ w.shmcheckpoint > 4 -> shmdt(m, w.shmaddr)
       [] step = 2 /\ w.shmcheckpoint > 3 -> XShmDetach(m, w.display, w.shmid)
       [] step = 3 /\ w.shmcheckpoint > 2 -> shmctl_RMID(m, w.shmid)
       [] step = 4 /\ w.shmcheckpoint > 1 -> XDestroyImage(m, w.image)
       [] step = 5 -> Logged(m, "XUngrabButton", TRUE)
       [] step = 6 -> [XCloseDisplay(m, w.display) EXCEPT !.w.display = 0]
       [] OTHER -> m

\* the tests and calls of sim_x11uninit's loop body, one after the other
sim_x11uninit_undo(m, step) ==
  LET w == m.w
  IN CASE step = 1 /\ w.shmcheckpoint > 4 -> XShmDetach(m, w.display, w.shmid)
       [] step = 2 /\ w.shmcheckpoint > 3 -> shmdt(m, w.shmaddr)
       [] step = 3 /\ w.shmcheckpoint > 2 -> shmctl_RMID(m, w.shmid)
       [] step = 4 /\ w.shmcheckpoint > 1 -> XDestroyImage(m, w.image)
       [] step = 5 -> Logged(m, "XUngrabButton", TRUE)
       [] step = 6 -> [XCloseDisplay(m, w.display) EXCEPT !.w.display = 0]
       [] OTHER -> m

\* every window is taken to have a connection
Closed_never(win) ==
  FALSE

\* if (win->display == NULL) continue;
Closed(win) ==
  win.display = 0

RECURSIVE sim_x11uninit_window(_, _)
\* the body of sim_x11uninit's loop for window m.d, from its step-th test on
sim_x11uninit_window(m, step) ==
  IF Closed(m.w) \/ step > 6
    THEN m
    ELSE Then(sim_x11uninit_undo(m, step), LAMBDA m1 :
           sim_x11uninit_window(m1, step + 1))

RECURSIVE sim_x11uninit_loop(_, _, _)
\* sim_x11uninit's loop from window i on
sim_x11uninit_loop(i, wins, m) ==
  IF i >= CONFIG_SIM_SCREEN_COUNT
    THEN [wins |-> wins, m |-> m]
    ELSE Then(sim_x11uninit_window([m EXCEPT !.d = i, !.w = wins[i]], 1),
              LAMBDA m1 :
           sim_x11uninit_loop(i + 1, [wins EXCEPT ![i] = m1.w], m1))

\* sim_x11uninit()
sim_x11uninit ==
  Then(Machine(0), LAMBDA m : sim_x11uninit_loop(0, g_x11_windows, m))

(***************************************************************************)
(* The framebuffer operations, each a call that runs to its return         *)
(***************************************************************************)

NoWindows == [d \in Displays |-> ZeroWin]

\* the record of an operation: base is the number of resources handed out
\* before it, pre the windows before it (kept for sim_x11uninit only)
Operation(op, d, ret, mapped, mapret, calls, base, pre) ==
  [op |-> op, d |-> d, ret |-> ret, mapped |-> mapped, mapret |-> mapret,
   calls |-> calls, base |-> base, pre |-> pre]

\* an operation that returns ret and calls neither the host nor the allocator
Plain(op, d, ret) ==
  Operation(op, d, ret, FALSE, 0, <<>>, Len(res), NoWindows)

FbInit ==
  /\ g_x11_windows = NoWindows
  /\ g_fb = [d \in 0 .. (CONFIG_SIM_X11NWINDOWS - 1) |-> ZeroFb]
  /\ res = <<>>
  /\ bad = {}
  /\ atexit_registered = FALSE
  /\ atexit_handlers = 0
  /\ proc = "running"
  /\ last = Plain("boot", 0, 0)
  /\ ninits = 0
  /\ nfaults = 0

\* a call of an indexed operation: its name, the index passed, its second
\* argument if it has one, what it returned (a pointer into g_fb as the
\* display's number plus one, NULL as 0)
Call(op, index, arg, ret) ==
  [op |-> op, index |-> index, arg |-> arg, ret |-> ret]

\* memory nothing has been written to
Unwritten == [red |-> 0 - 1, green |-> 0 - 1, blue |-> 0 - 1]

\* the window of a display before sim_x11createframe made one
NoScreen == [mapped |-> FALSE, frame |-> Unwritten]

LoopInit ==
  /\ clock = 0
  /\ sim_x11loop_last = 0
  /\ paninfo = [d \in 0 .. (CONFIG_SIM_X11NWINDOWS - 1) |-> << >>]
  /\ bodies = << >>
  /\ nticks = 0
  /\ npans = 0

DrawInit ==
  /\ mem = << >>
  /\ screen = [d \in Displays |-> NoScreen]
  /\ called = Call("boot", 0, 0, 0)
  /\ ndraws = 0

\* the result of sim_x11initialize is not looked at
Refused_never(ret) ==
  FALSE

\* if (ret < 0) return ret, before fb->initialized is set
Refused(ret) ==
  ret < 0

\* the test of fb->initialized left out
AlreadyInitialized_never(fb) ==
  FALSE

\* if (fb->initialized) return OK;
AlreadyInitialized(fb) ==
  fb.initialized # 0

\* up_fbinitialize(display)
up_fbinitialize(display, o) ==
  /\ proc = "running"
  /\ IF display < 0 \/ display >= CONFIG_SIM_X11NWINDOWS
       THEN /\ o = NoFailure
            /\ last' = Plain("up_fbinitialize", 0, 0 - EINVAL)
            /\ UNCHANGED <<g_x11_windows, g_fb, res, bad, atexit_registered, atexit_handlers,
                           ninits, nfaults>>
     ELSE IF AlreadyInitialized(g_fb[display])
       THEN /\ o = NoFailure
            /\ last' = Plain("up_fbinitialize", display, 0)
            /\ UNCHANGED <<g_x11_windows, g_fb, res, bad, atexit_registered, atexit_handlers,
                           ninits, nfaults>>
     ELSE LET fb == [ZeroFb EXCEPT
                       !.displayno = display,
                       !.power = 100,
                       !.videoinfo = [xres |-> kconfig.width,
                                      yres |-> kconfig.height,
                                      nplanes |-> 1],
                       !.planeinfo.xres_virtual = kconfig.width,
                       !.planeinfo.yres_virtual =
                          kconfig.height * kconfig.fbcount]
          IN /\ ninits + (IF o.open THEN 1 ELSE 0) <= MaxInits
             /\ \E r \in {sim_x11initialize(display, kconfig.width,
                                         kconfig.height, fb.planeinfo,
                                         kconfig.fbcount, kconfig.interval,
                                         o)} :
               /\ r.m.faults = Cardinality({f \in DOMAIN o : ~o[f]})
               /\ nfaults' = nfaults + r.m.faults
               /\ ninits' = ninits + (IF r.opened THEN 1 ELSE 0)
               /\ g_x11_windows' =
                    IF display \in Displays
                      THEN [g_x11_windows EXCEPT ![display] = r.m.w]
                      ELSE g_x11_windows
               /\ res' = r.m.res
               /\ bad' = r.m.bad
               /\ atexit_registered' = r.m.atexit
               /\ UNCHANGED atexit_handlers
               /\ g_fb' =
                    [g_fb EXCEPT
                       ![display] =
                          IF Refused(r.ret)
                            THEN [fb EXCEPT !.planeinfo = r.plane]
                            ELSE [fb EXCEPT
                                    !.planeinfo =
                                       [r.plane EXCEPT !.display = display],
                                    !.initialized = 1]]
               /\ last' = Operation("up_fbinitialize", display, r.ret,
                                    r.mapped, r.mapret, r.m.calls, Len(res),
                                    NoWindows)
  /\ UNCHANGED <<kconfig, xserver, proc>>

\* up_fbuninitialize(display)
up_fbuninitialize(display) ==
  /\ proc = "running"
  /\ g_fb' = IF display >= 0 /\ display < CONFIG_SIM_X11NWINDOWS
               THEN [g_fb EXCEPT ![display].initialized = 0]
               ELSE g_fb
  /\ last' = Plain("up_fbuninitialize",
                   IF display \in Displays THEN display ELSE 0, 0)
  /\ UNCHANGED <<kconfig, xserver, g_x11_windows, res, bad,
                 atexit_registered, atexit_handlers, proc, ninits, nfaults>>

\* the process exits: exit() runs sim_x11uninit if sim_x11mapsharedmem
\* registered it
ProcessExit ==
  /\ proc = "running"
  /\ proc' = "exited"
  /\ IF atexit_registered
       THEN \E r \in {sim_x11uninit} :
               /\ g_x11_windows' = r.wins
               /\ res' = r.m.res
               /\ bad' = r.m.bad
               /\ last' = Operation("sim_x11uninit", 0, 0, FALSE, 0,
                                    r.m.calls, Len(res), g_x11_windows)
       ELSE /\ last' = Operation("exit", 0, 0, FALSE, 0, <<>>, Len(res),
                                 g_x11_windows)
            /\ UNCHANGED <<g_x11_windows, res, bad>>
  /\ UNCHANGED <<kconfig, xserver, g_fb, atexit_registered, atexit_handlers, ninits, nfaults>>

(***************************************************************************)
(* sim_x11framebuffer.c: the operations on a window                        *)
(***************************************************************************)

\* x11_color16_t: the fields of the 16-bit pixel full
x11_color16_t(full) ==
  [blue |-> full % 32, green |-> (full \div 32) % 64,
   red |-> (full \div 2048) % 32]

\* dst->red = (src->red * 263 + 7) >> 5, into a uint8_t
Red8(red) == ((red * 263 + 7) \div 32) % 256

\* dst->green = (src->green * 259 + 3) >> 6, into a uint8_t
Green8(green) == ((green * 259 + 3) \div 64) % 256

\* one turn of sim_x11depth16to32's loop: the x11_color32_t of a
\* x11_color16_t
Pixel32(src) ==
  [red |-> Red8(src.red), green |-> Green8(src.green),
   blue |-> Red8(src.blue), alpha |-> 255]

\* the loop with src never advanced
sim_x11depth16to32_stuck(size, s_mem) ==
  [k \in 1 .. (size \div 4) |-> Pixel32(s_mem[1])]

\* sim_x11depth16to32(d_mem, size, s_mem): the pixels it stores at d_mem,
\* s_mem being the sequence of the x11_color16_t at s_mem
sim_x11depth16to32(size, s_mem) ==
  [k \in 1 .. (size \div 4) |-> Pixel32(s_mem[k])]

\* the pixel at a pointer
Read(ptr) ==
  IF <<ptr.base, ptr.off>> \in DOMAIN mem
    THEN mem[<<ptr.base, ptr.off>>]
    ELSE Unwritten

\* memory after a store of pixel at a pointer
Stored(ptr, pixel) ==
  [a \in DOMAIN mem \cup {<<ptr.base, ptr.off>>} |->
     IF a = <<ptr.base, ptr.off>> THEN pixel ELSE mem[a]]

\* ptr + n
Plus(ptr, n) == Ptr(ptr.base, ptr.off + n)

\* an operation on a window returns; m is the machine it leaves
WindowReturns(op, display_idx, m, ret) ==
  /\ last' = Operation(op, display_idx, ret, FALSE, 0, m.calls, Len(res),
                       g_x11_windows)
  /\ g_x11_windows' = IF display_idx \in Displays
                        THEN [g_x11_windows EXCEPT ![display_idx] = m.w]
                        ELSE g_x11_windows
  /\ res' = m.res
  /\ bad' = m.bad
  /\ UNCHANGED <<kconfig, xserver, g_fb, atexit_registered, atexit_handlers, proc, ninits,
                 nfaults>>

\* an operation on a window dereferences a pointer that is NULL: the host
\* ends the process
WindowFaults(op, display_idx, m, access) ==
  /\ last' = Operation(op, display_idx, 0, FALSE, 0, m.calls, Len(res),
                       g_x11_windows)
  /\ bad' = m.bad \cup {access}
  /\ proc' = "crashed"
  /\ UNCHANGED <<kconfig, xserver, g_x11_windows, g_fb, res,
                 atexit_registered, atexit_handlers, ninits, nfaults, mem, screen>>

\* sim_x11openwindow(display_idx)
sim_x11openwindow(display_idx) ==
  /\ proc = "running"
  /\ \E m \in {Machine(display_idx)} :
       IF OutOfRange(display_idx)
         THEN /\ WindowReturns("sim_x11openwindow", display_idx, m,
                               0 - EINVAL)
              /\ UNCHANGED screen
       ELSE IF m.w.display = 0
         THEN /\ WindowReturns("sim_x11openwindow", display_idx, m,
                               0 - ENODEV)
              /\ UNCHANGED screen
       ELSE /\ WindowReturns("sim_x11openwindow", display_idx,
                             Logged(Logged(m, "XMapWindow", TRUE), "XSync",
                                    TRUE),
                             0)
            /\ screen' = [screen EXCEPT ![display_idx].mapped = TRUE]
  /\ UNCHANGED mem

\* sim_x11closewindow(display_idx)
sim_x11closewindow(display_idx) ==
  /\ proc = "running"
  /\ \E m \in {Machine(display_idx)} :
       IF OutOfRange(display_idx)
         THEN /\ WindowReturns("sim_x11closewindow", display_idx, m,
                               0 - EINVAL)
              /\ UNCHANGED screen
       ELSE IF m.w.display = 0
         THEN /\ WindowReturns("sim_x11closewindow", display_idx, m,
                               0 - ENODEV)
              /\ UNCHANGED screen
       ELSE /\ WindowReturns("sim_x11closewindow", display_idx,
                             Logged(Logged(m, "XUnmapWindow", TRUE), "XSync",
                                    TRUE),
                             0)
            /\ screen' = [screen EXCEPT ![display_idx].mapped = FALSE]
  /\ UNCHANGED mem

\* sim_x11setoffset(display_idx, offset); offset << 1 is offset * 2 for the
\* offsets of a buffer, all below 2^31
sim_x11setoffset(display_idx, offset) ==
  /\ proc = "running"
  /\ \E m \in {Machine(display_idx)} :
       IF OutOfRange(display_idx)
         THEN /\ WindowReturns("sim_x11setoffset", display_idx, m,
                               0 - EINVAL)
              /\ UNCHANGED <<mem, screen>>
       ELSE IF m.w.display = 0
         THEN /\ WindowReturns("sim_x11setoffset", display_idx, m,
                               0 - ENODEV)
              /\ UNCHANGED <<mem, screen>>
       ELSE IF m.w.image = 0
         THEN WindowFaults("sim_x11setoffset", display_idx, m,
                           "win->image->data")
       ELSE IF m.w.fbbpp = 32 /\ kconfig.bpp = 16
         THEN /\ WindowReturns(
                   "sim_x11setoffset", display_idx,
                   [m EXCEPT !.res[m.w.image].data =
                                Plus(m.w.framebuffer, offset * 2),
                             !.w.offset = offset],
                   0)
              /\ UNCHANGED <<mem, screen>>
         ELSE /\ WindowReturns(
                   "sim_x11setoffset", display_idx,
                   [m EXCEPT !.res[m.w.image].data =
                                Plus(m.w.framebuffer, offset)],
                   0)
              /\ UNCHANGED <<mem, screen>>

\* the colours are numbered from 0 whatever first is
Ndx_fromzero(first, k) ==
  k - 1

\* for (ndx = first; ndx < first + len; ndx++): ndx in the k-th turn
Ndx(first, k) ==
  first + (k - 1)

\* sim_x11cmap(display_idx, first, len, red, green, blue, transp); XAllocColor
\* fails in the turn numbered fails (0: in none)
sim_x11cmap(display_idx, first, len, fails) ==
  /\ proc = "running"
  /\ \E m \in {Machine(display_idx)} :
       IF OutOfRange(display_idx)
         THEN WindowReturns("sim_x11cmap", display_idx, m, 0 - EINVAL)
       ELSE IF m.w.display = 0
         THEN WindowReturns("sim_x11cmap", display_idx, m, 0 - ENODEV)
       ELSE LET n == IF fails \in 1 .. len THEN fails ELSE len
                allocs == [i \in 1 .. n |->
                             [f |-> "XAllocColor", d |-> m.d,
                              ok |-> i # fails, ndx |-> Ndx(first, i)]]
            IN WindowReturns("sim_x11cmap", display_idx,
                             [m EXCEPT !.calls = @ \o allocs],
                             IF fails \in 1 .. len THEN 0 - 1 ELSE 0)
  /\ UNCHANGED <<mem, screen>>

\* sim_putcmap(&g_fb[display].vtable, cmap), cmap holding first and len
sim_putcmap(display, first, len, fails) ==
  sim_x11cmap(g_fb[display].displayno, first, len, fails)

\* sim_x11update(display_idx); atsync: the host reads the shared segment of
\* an XShmPutImage when XSync has sent the request, not when it is made
sim_x11update(display_idx, atsync) ==
  /\ proc = "running"
  /\ \E m \in {Machine(display_idx)} :
       IF OutOfRange(display_idx)
         THEN /\ atsync = FALSE
              /\ WindowReturns("sim_x11update", display_idx, m, 0 - EINVAL)
              /\ UNCHANGED <<mem, screen>>
       ELSE IF m.w.display = 0
         THEN /\ atsync = FALSE
              /\ WindowReturns("sim_x11update", display_idx, m, 0 - ENODEV)
              /\ UNCHANGED <<mem, screen>>
       ELSE
       LET put == IF m.w.useshm # 0 THEN "XShmPutImage" ELSE "XPutImage"
           m1 == Logged(m, put, TRUE)
           converts == m.w.fbbpp = 32 /\ kconfig.bpp = 16
       IN
       IF m.w.image = 0 \/ m.res[m.w.image].data.base < 1
         THEN /\ atsync = FALSE
              /\ WindowFaults("sim_x11update", display_idx, m1, put)
       ELSE IF converts /\ m.w.trans_framebuffer = NULL
         THEN /\ atsync = FALSE
              /\ WindowFaults("sim_x11update", display_idx, m1,
                              "sim_x11depth16to32")
       ELSE
       LET data == m.res[m.w.image].data
           src == Read(Plus(m.w.trans_framebuffer, m.w.offset))
           mem1 == IF converts
                     THEN Stored(data, IF src = Unwritten THEN Unwritten
                                        ELSE Pixel32(src))
                     ELSE mem
           m2 == IF converts THEN Logged(m1, "sim_x11depth16to32", TRUE)
                 ELSE m1
           at == <<data.base, data.off>>
           late == IF at \in DOMAIN mem1 THEN mem1[at] ELSE Unwritten
       IN /\ atsync => (m.w.useshm # 0 /\ converts)
          /\ WindowReturns("sim_x11update", display_idx,
                           Logged(m2, "XSync", TRUE), 0)
          /\ mem' = mem1
          /\ screen' = [screen EXCEPT
                          ![display_idx].frame =
                             IF atsync THEN late ELSE Read(data)]

\* the pointer up_fbgetvplane returns: NULL as 0, &g_fb[display].vtable as
\* the display's number plus one
up_fbgetvplane(display, vplane) ==
  /\ proc = "running"
  /\ last' = Plain("up_fbgetvplane", display,
                   IF display < 0 \/ display >= CONFIG_SIM_X11NWINDOWS
                     THEN 0
                   ELSE IF vplane # 0 THEN 0
                   ELSE IF g_fb[display].initialized = 0 THEN 0
                   ELSE display + 1)
  /\ UNCHANGED <<kconfig, xserver, g_x11_windows, g_fb, res, bad,
                 atexit_registered, atexit_handlers, proc, ninits, nfaults, mem, screen>>

\* a caller other than up_fbinitialize calls sim_x11initialize with the
\* build's geometry
sim_x11initialize_call(display_idx, o) ==
  /\ proc = "running"
  /\ ninits + (IF o.open /\ ~OutOfRange(display_idx) THEN 1 ELSE 0)
       <= MaxInits
  /\ \E r \in {sim_x11initialize(display_idx, kconfig.width, kconfig.height,
                                 ZeroPlane, kconfig.fbcount,
                                 kconfig.interval, o)} :
       /\ r.m.faults = Cardinality({f \in DOMAIN o : ~o[f]})
       /\ nfaults' = nfaults + r.m.faults
       /\ ninits' = ninits + (IF r.opened THEN 1 ELSE 0)
       /\ g_x11_windows' = IF display_idx \in Displays
                             THEN [g_x11_windows EXCEPT ![display_idx] = r.m.w]
                             ELSE g_x11_windows
       /\ res' = r.m.res
       /\ bad' = r.m.bad
       /\ atexit_registered' = r.m.atexit
       /\ UNCHANGED atexit_handlers
       /\ last' = Operation("sim_x11initialize", display_idx, r.ret, r.mapped,
                            r.mapret, r.m.calls, Len(res), g_x11_windows)
  /\ UNCHANGED <<kconfig, xserver, g_fb, proc, mem, screen>>

\* the colours the application draws with, as x11_color16_t.full
Colours == {65535, 2115}

\* the first lines of the buffers of a display
YOffsets ==
  {0} \cup (IF kconfig.fbcount > 1 THEN {kconfig.height + kconfig.interval}
            ELSE {})

\* the application draws a frame of one colour into the buffer that starts
\* at line yoffset of the plane of an initialized display
Draw(display, yoffset, full) ==
  /\ proc = "running"
  /\ g_fb[display].initialized # 0
  /\ g_fb[display].planeinfo.fbmem # NULL
  /\ LET plane == g_fb[display].planeinfo
         c == x11_color16_t(full)
     IN mem' = Stored(Plus(plane.fbmem, yoffset * plane.stride),
                       IF plane.bpp = 16 THEN c
                       ELSE [red |-> c.red, green |-> c.green,
                             blue |-> c.blue, alpha |-> 255])
  /\ last' = Plain("Draw", display, 0)
  /\ UNCHANGED <<kconfig, xserver, g_x11_windows, g_fb, res, bad,
                 atexit_registered, atexit_handlers, proc, ninits, nfaults, screen>>

(***************************************************************************)
(* sim_framebuffer.c: the plane of a display                               *)
(***************************************************************************)

\* the buffers of the displays follow each other without a gap
DisplayBuffer_packed(planeinfo, d) ==
  Plus(planeinfo.fbmem, planeinfo.stride * kconfig.height * d)

\* fb->planeinfo.fbmem + fb->planeinfo.stride *
\*   (CONFIG_SIM_FB_INTERVAL_LINE + CONFIG_SIM_FBHEIGHT) * d
DisplayBuffer(planeinfo, d) ==
  Plus(planeinfo.fbmem,
       planeinfo.stride * (kconfig.interval + kconfig.height) * d)

\* sim_getplaneinfo(&g_fb[display].vtable, planeno, pinfo): pinfo is NULL or
\* a plane info of which the caller has set display.  The record of the call
\* has the return value and what pinfo holds afterwards.
sim_getplaneinfo(display, planeno, pinfo) ==
  /\ proc = "running"
  /\ \E out \in
        {IF planeno = 0 /\ pinfo # NULL
           THEN [ret |-> 0,
                 pinfo |->
                   IF kconfig.interval > 0
                      /\ pinfo.display - g_fb[display].planeinfo.display > 0
                     THEN [g_fb[display].planeinfo EXCEPT
                             !.display = pinfo.display,
                             !.fbmem =
                                DisplayBuffer(
                                  g_fb[display].planeinfo,
                                  pinfo.display
                                    - g_fb[display].planeinfo.display)]
                     ELSE g_fb[display].planeinfo]
           ELSE [ret |-> 0 - EINVAL, pinfo |-> pinfo]} :
       /\ called' = Call("sim_getplaneinfo", display, <<planeno, pinfo>>, out)
       /\ last' = Plain("sim_getplaneinfo", display, out.ret)
  /\ UNCHANGED <<kconfig, xserver, g_x11_windows, g_fb, res, bad,
                 atexit_registered, atexit_handlers, proc, ninits, nfaults>>
  /\ UNCHANGED <<mem, screen, ndraws>>

(***************************************************************************)
(* sim_framebuffer.c: sim_x11loop.  The pan requests are kept by the       *)
(* generic framebuffer layer: fb_paninfo_count, fb_remove_paninfo and      *)
(* fb_peek_paninfo work on a queue, oldest request first.                  *)
(***************************************************************************)

\* the generic layer queues a pan request for a registered display: the
\* line to show and the plane's stride
fb_add_paninfo(display, yoffset) ==
  /\ proc = "running"
  /\ g_fb[display].initialized # 0
  /\ npans < MaxPans
  /\ npans' = npans + 1
  /\ paninfo' = [paninfo EXCEPT
                   ![display] =
                      Append(@, [yoffset |-> yoffset,
                                 stride |-> g_fb[display].planeinfo.stride])]
  /\ last' = Plain("fb_add_paninfo", display, 0)
  /\ UNCHANGED <<kconfig, xserver, g_x11_windows, g_fb, res, bad,
                 atexit_registered, atexit_handlers, proc, ninits, nfaults>>
  /\ UNCHANGED <<clock, sim_x11loop_last, bodies, nticks>>

\* fb_paninfo_count(vtable, FB_NO_OVERLAY)
fb_paninfo_count(queue) == Len(queue)

\* fb_remove_paninfo(vtable, FB_NO_OVERLAY): the oldest request goes
fb_remove_paninfo(queue) == Tail(queue)

\* fb_peek_paninfo(vtable, &info, FB_NO_OVERLAY) == OK
fb_peek_paninfo_OK(queue) == queue # << >>

\* the info fb_peek_paninfo stores: the oldest request, left in the queue
fb_peek_paninfo(queue) == Head(queue)

\* any pending request is taken for an older one
Superseded_any(queue) ==
  fb_paninfo_count(queue) > 0

\* fb_paninfo_count(&fb->vtable, FB_NO_OVERLAY) > 1: a newer request waits
\* behind the oldest
Superseded(queue) ==
  fb_paninfo_count(queue) > 1

\* the body runs whenever the clock has moved
Eligible_moved(now, prev) ==
  now - prev > 0

\* now - last >= 16000000, the clock never behind last
Eligible(now, prev) ==
  now - prev >= 16000000

\* what sim_x11loop works on
LoopState ==
  [wins |-> g_x11_windows, res |-> res, bad |-> bad, calls |-> << >>,
   mem |-> mem, screen |-> screen, pan |-> paninfo, proc |-> proc]

\* sim_x11loop makes a call for display i
Noted(s, f, i) ==
  [s EXCEPT !.calls = Append(@, [f |-> f, d |-> i, ok |-> TRUE])]

\* a store or a load through a NULL pointer ends the process
Faulted(s, access) ==
  [s EXCEPT !.bad = @ \cup {access}, !.proc = "crashed"]

\* the pixel at a pointer into the memory m
ReadIn(m, ptr) ==
  IF <<ptr.base, ptr.off>> \in DOMAIN m THEN m[<<ptr.base, ptr.off>>]
  ELSE Unwritten

\* the memory m after a store of pixel at a pointer
StoredIn(m, ptr, pixel) ==
  [a \in DOMAIN m \cup {<<ptr.base, ptr.off>>} |->
     IF a = <<ptr.base, ptr.off>> THEN pixel ELSE m[a]]

\* the call is made and stores nothing
sim_x11loop_setoffset_lost(s0, i, offset) ==
  Noted(s0, "sim_x11setoffset", i)

\* sim_x11setoffset(i, offset) as sim_x11loop calls it
sim_x11loop_setoffset(s0, i, offset) ==
  Then(Noted(s0, "sim_x11setoffset", i), LAMBDA s :
  IF OutOfRange(i) THEN s
  ELSE IF s.wins[i].display = 0 THEN s
  ELSE IF s.wins[i].image = 0 THEN Faulted(s, "win->image->data")
  ELSE IF s.wins[i].fbbpp = 32 /\ kconfig.bpp = 16
    THEN [s EXCEPT !.res[s.wins[i].image].data =
                      Plus(s.wins[i].framebuffer, offset * 2),
                   !.wins[i].offset = offset]
    ELSE [s EXCEPT !.res[s.wins[i].image].data =
                      Plus(s.wins[i].framebuffer, offset)])

\* sim_x11update(i) as sim_x11loop calls it
sim_x11loop_update(s0, i, atsync) ==
  Then(Noted(s0, "sim_x11update", i), LAMBDA s :
  IF OutOfRange(i) THEN s
  ELSE IF s.wins[i].display = 0 THEN s
  ELSE
  LET w == s.wins[i]
      put == IF w.useshm # 0 THEN "XShmPutImage" ELSE "XPutImage"
      converts == w.fbbpp = 32 /\ kconfig.bpp = 16
  IN
  Then(Noted(s, put, i), LAMBDA s1 :
  IF w.image = 0 \/ s.res[w.image].data.base < 1 THEN Faulted(s1, put)
  ELSE IF converts /\ w.trans_framebuffer = NULL
    THEN Faulted(s1, "sim_x11depth16to32")
  ELSE
  LET data == s.res[w.image].data
      src == ReadIn(s.mem, Plus(w.trans_framebuffer, w.offset))
  IN
  Then(IF converts
         THEN StoredIn(s.mem, data,
                       IF src = Unwritten THEN Unwritten ELSE Pixel32(src))
         ELSE s.mem,
       LAMBDA mem1 :
  [Noted(IF converts THEN Noted(s1, "sim_x11depth16to32", i) ELSE s1,
         "XSync", i)
     EXCEPT !.mem = mem1,
            !.screen[i].frame =
               IF atsync /\ w.useshm # 0 THEN ReadIn(mem1, data)
               ELSE ReadIn(s.mem, data)])))

\* one turn of sim_x11loop's loop over the displays
sim_x11loop_display(s, i, atsync) ==
  IF s.proc # "running" THEN s
  ELSE IF g_fb[i].initialized = 0 THEN s
  ELSE
  Then(Noted(s, "fb_notify_vsync", i), LAMBDA s1 :
  Then(IF Superseded(s1.pan[i])
         THEN Noted([s1 EXCEPT !.pan[i] = fb_remove_paninfo(@)],
                    "fb_remove_paninfo", i)
         ELSE s1,
       LAMBDA s2 :
  Then(IF fb_peek_paninfo_OK(s2.pan[i])
         THEN sim_x11loop_setoffset(
                s2, i,
                fb_peek_paninfo(s2.pan[i]).yoffset
                  * fb_peek_paninfo(s2.pan[i]).stride)
         ELSE s2,
       LAMBDA s3 :
  IF s3.proc # "running" THEN s3
  ELSE sim_x11loop_update(s3, i, atsync))))

RECURSIVE sim_x11loop_body(_, _, _)
\* for (i = 0; i < CONFIG_SIM_X11NWINDOWS; i++), from display i on
sim_x11loop_body(i, s, atsync) ==
  IF i >= CONFIG_SIM_X11NWINDOWS THEN s
  ELSE Then(sim_x11loop_display(s, i, atsync), LAMBDA s1 :
         sim_x11loop_body(i + 1, s1, atsync))

\* sim_x11loop(arg), host_gettime reading now; atsync: the host reads the
\* shared segments when XSync has sent the requests.  The record of the call
\* has ret 1 when the body ran.
sim_x11loop(now, atsync) ==
  /\ proc = "running"
  /\ clock' = now
  /\ IF Eligible(now, sim_x11loop_last)
       THEN \E s \in {sim_x11loop_body(0, LoopState, atsync)} :
              /\ sim_x11loop_last' = now
              /\ bodies' = Append(bodies, now)
              /\ g_x11_windows' = s.wins
              /\ res' = s.res
              /\ bad' = s.bad
              /\ mem' = s.mem
              /\ screen' = s.screen
              /\ paninfo' = s.pan
              /\ proc' = s.proc
              /\ last' = Operation("sim_x11loop", 0, 1, FALSE, 0, s.calls,
                                   Len(res), g_x11_windows)
       ELSE /\ last' = Operation("sim_x11loop", 0, 0, FALSE, 0, << >>,
                                 Len(res), g_x11_windows)
            /\ UNCHANGED <<sim_x11loop_last, bodies, g_x11_windows, res, bad,
                           mem, screen, paninfo, proc>>
  /\ UNCHANGED <<kconfig, xserver, g_fb, atexit_registered, atexit_handlers, ninits, nfaults>>

\* the outcomes with at most k failures
OutcomesUpTo ==
  [k \in 0 .. Cardinality(DOMAIN NoFailure) |->
     { o \in Outcomes : Cardinality({f \in DOMAIN o : ~o[f]}) <= k }]

\* the outcomes that leave the run within its failures
Affordable == OutcomesUpTo[MaxFaults - nfaults]

FbNext ==
  /\ \/ \E display \in Indexes, o \in Affordable : up_fbinitialize(display, o)
     \/ \E display \in 0 .. (CONFIG_SIM_X11NWINDOWS - 1) :
          g_fb[display].initialized # 0 /\ up_fbuninitialize(display)
     \/ ProcessExit
  /\ UNCHANGED touchvars
  /\ UNCHANGED drawvars
  /\ UNCHANGED loopvars

\* a run on one of the platforms
PlatformInit(ps) ==
  \E p \in ps : kconfig = p.kconfig /\ xserver = p.xserver

\* the platform of the runs that follow the touchscreen only
TouchPlatform ==
  [kconfig |-> Kconfig(16, 320, 240, 2, 0), xserver |-> XServer(16, TRUE)]

\* the state after boot on any of the platforms
FbBoot ==
  TouchInit /\ FbInit /\ DrawInit /\ LoopInit /\ PlatformInit(Platforms)

SpecFb == FbBoot /\ [][FbNext]_vars

(***************************************************************************)
(* sim_x11uninit called again                                              *)
(***************************************************************************)

\* sim_x11uninit is called once more after exit() called it
sim_x11uninit_again ==
  /\ proc = "exited"
  /\ atexit_registered
  /\ ndraws < MaxCalls
  /\ ndraws' = ndraws + 1
  /\ \E r \in {sim_x11uninit} :
       /\ g_x11_windows' = r.wins
       /\ res' = r.m.res
       /\ bad' = r.m.bad
       /\ last' = Operation("sim_x11uninit", 0, 0, FALSE, 0, r.m.calls,
                            Len(res), g_x11_windows)
  /\ UNCHANGED <<kconfig, xserver, g_fb, atexit_registered, atexit_handlers, proc, ninits,
                 nfaults, mem, screen, called>>

ReleaseNext ==
  /\ \/ /\ \/ \E display \in Indexes, o \in Affordable :
                 up_fbinitialize(display, o)
           \/ \E display \in 0 .. (CONFIG_SIM_X11NWINDOWS - 1) :
                 g_fb[display].initialized # 0 /\ up_fbuninitialize(display)
           \/ ProcessExit
        /\ UNCHANGED drawvars
     \/ sim_x11uninit_again
  /\ UNCHANGED touchvars
  /\ UNCHANGED loopvars

SpecRelease == FbBoot /\ [][ReleaseNext]_vars

(***************************************************************************)
(* The layout sim_x11initialize computes, over the builds and the hosts    *)
(***************************************************************************)

\* CONFIG_SIM_FBWIDTH: a usual width, and widths whose stride does not fit
\* the 16 bits of *stride
Widths == {320, 16384, 65535}

\* CONFIG_SIM_FBHEIGHT; stride * height stays within int
Heights == {240, 1024}

\* CONFIG_SIM_FBBPP, and the depths a root window has
Depths == {8, 16, 24, 32}

\* every build on every host, MIT-SHM present
LayoutPlatforms ==
  { [kconfig |-> Kconfig(bpp, width, height, fbcount, interval),
     xserver |-> XServer(depth, TRUE)] :
      bpp \in Depths, width \in Widths, height \in Heights,
      fbcount \in {1, 2}, interval \in {0, 8}, depth \in Depths }

\* the state after boot of any build on any host
LayoutBoot ==
  /\ TouchInit /\ FbInit /\ DrawInit /\ LoopInit
  /\ PlatformInit(LayoutPlatforms)

\* the displays are initialized, every host call succeeding
LayoutNext ==
  /\ \E display \in Indexes : up_fbinitialize(display, NoFailure)
  /\ UNCHANGED touchvars
  /\ UNCHANGED drawvars
  /\ UNCHANGED loopvars

SpecLayout == LayoutBoot /\ [][LayoutNext]_vars

(***************************************************************************)
(* The buffers sim_x11mapsharedmem allocates, with and without MIT-SHM     *)
(***************************************************************************)

\* widths whose stride fits the 16 bits of *stride and whose lines need no
\* padding
PlainWidths == {320, 640}

\* every build of these widths on every host, with MIT-SHM and without
SizePlatforms ==
  { [kconfig |-> Kconfig(bpp, width, height, fbcount, interval),
     xserver |-> XServer(depth, shm)] :
      bpp \in Depths, width \in PlainWidths, height \in Heights,
      fbcount \in {1, 2}, interval \in {0, 8}, depth \in Depths,
      shm \in BOOLEAN }

SizeBoot ==
  /\ TouchInit /\ FbInit /\ DrawInit /\ LoopInit
  /\ PlatformInit(SizePlatforms)

SpecSize == SizeBoot /\ [][LayoutNext]_vars

(***************************************************************************)
(* The single-screen build of sim_x11framebuffer.c (the #else branch of    *)
(* CONFIG_SIM_MULTI_SCREEN_SUPPORT).  Its globals g_display, g_image,      *)
(* g_framebuffer, g_shmcheckpoint, b_useshm, g_xshminfo are the fields of  *)
(* window 0.                                                               *)
(***************************************************************************)

RECURSIVE sim_x11uninit_singlescreen_from(_, _)
\* sim_x11uninit of the single-screen build from its step-th test on; it
\* closes g_display and leaves the pointer as it is
sim_x11uninit_singlescreen_from(m, step) ==
  IF step > 5
    THEN XCloseDisplay(m, m.w.display)
    ELSE Then(sim_x11uninit_undo(m, step), LAMBDA m1 :
           sim_x11uninit_singlescreen_from(m1, step + 1))

\* sim_x11uninit() of the single-screen build
sim_x11uninit_singlescreen(m) ==
  IF m.w.display = 0
    THEN m
    ELSE sim_x11uninit_singlescreen_from(m, 1)

\* sim_x11initialize(width, height, ...) of the single-screen build, every
\* host and allocator call succeeding.  Its statements are those of the
\* multi-screen function for window 0, with these differences: there is no
\* index to test, g_display is assigned on the return of 0 only, and
\* sim_x11mapsharedmem calls atexit(sim_x11uninit) each time it is entered.
sim_x11initialize_singlescreen ==
  /\ proc = "running"
  /\ ninits < MaxInits
  /\ \E r \in {sim_x11initialize(0, kconfig.width, kconfig.height, ZeroPlane,
                                 kconfig.fbcount, kconfig.interval,
                                 NoFailure)} :
       /\ g_x11_windows' =
            [g_x11_windows EXCEPT
               ![0] = [r.m.w EXCEPT
                         !.display = IF r.ret = 0
                                       THEN r.m.w.display
                                       ELSE g_x11_windows[0].display]]
       /\ atexit_handlers' = atexit_handlers + (IF r.mapped THEN 1 ELSE 0)
       /\ res' = r.m.res
       /\ bad' = r.m.bad
       /\ ninits' = ninits + 1
       /\ last' = Operation("sim_x11initialize", 0, r.ret, r.mapped, r.mapret,
                            r.m.calls, Len(res), NoWindows)
  /\ UNCHANGED <<kconfig, xserver, g_fb, atexit_registered, proc, nfaults>>

\* the process calls exit()
exit_singlescreen ==
  /\ proc = "running"
  /\ proc' = "exited"
  /\ last' = Operation("exit", 0, 0, FALSE, 0, <<>>, Len(res), g_x11_windows)
  /\ UNCHANGED <<kconfig, xserver, g_x11_windows, g_fb, res, bad,
                 atexit_registered, atexit_handlers, ninits, nfaults>>

\* exit() calls the next of the handlers registered with atexit
atexit_singlescreen ==
  /\ proc = "exited"
  /\ atexit_handlers > 0
  /\ atexit_handlers' = atexit_handlers - 1
  /\ \E m \in {sim_x11uninit_singlescreen(Machine(0))} :
       /\ g_x11_windows' = [g_x11_windows EXCEPT ![0] = m.w]
       /\ res' = m.res
       /\ bad' = m.bad
       /\ last' = Operation("sim_x11uninit", 0, 0, FALSE, 0, m.calls, Len(res),
                            g_x11_windows)
  /\ UNCHANGED <<kconfig, xserver, g_fb, atexit_registered, proc, ninits,
                 nfaults>>

SingleNext ==
  /\ \/ sim_x11initialize_singlescreen
     \/ exit_singlescreen
     \/ atexit_singlescreen
  /\ UNCHANGED touchvars
  /\ UNCHANGED drawvars
  /\ UNCHANGED loopvars

SpecSingle == SizeBoot /\ [][SingleNext]_vars

(***************************************************************************)
(* sim_x11depth16to32 over the buffers it may be given                     *)
(***************************************************************************)

\* the 16-bit pixels whose fields take every value: green k, red and blue
\* k mod 32
Fulls == { (k % 32) * 2048 + k * 32 + (k % 32) : k \in 0 .. 63 }

\* the source buffers: two pixels
Sources == { <<a, b>> : a \in Fulls, b \in {0, 65535} }

\* the sizes in bytes of the destination
Sizes == {0, 3, 4, 7, 8}

\* where the source and the destination buffer of the conversion are
SrcBuffer == Ptr(1, 0)

DstBuffer == Ptr(2, 0)

\* the pixels of n elements of size bytes each at ptr
Buffer(ptr, n, size) ==
  [k \in 1 .. n |-> Read(Plus(ptr, (k - 1) * size))]

\* the source buffer holds any two pixels
ConvBoot ==
  /\ TouchInit
  /\ FbInit
  /\ LoopInit
  /\ PlatformInit({TouchPlatform})
  /\ \E s \in Sources :
       mem = [a \in {<<SrcBuffer.base, 2 * (k - 1)>> : k \in 1 .. Len(s)} |->
                x11_color16_t(s[(a[2] \div 2) + 1])]
  /\ screen = [d \in Displays |-> NoScreen]
  /\ called = Call("boot", 0, 0, 0)
  /\ ndraws = 0

\* sim_x11depth16to32(DstBuffer, size, SrcBuffer) is called
Convert(size) ==
  /\ called.op = "boot"
  /\ \E dst \in {sim_x11depth16to32(size, Buffer(SrcBuffer, size \div 4, 2))} :
       mem' = [a \in DOMAIN mem
                       \cup {<<DstBuffer.base, 4 * (k - 1)>> :
                               k \in DOMAIN dst} |->
                 IF a[1] = DstBuffer.base THEN dst[(a[2] \div 4) + 1]
                 ELSE mem[a]]
  /\ called' = Call("sim_x11depth16to32", 0, size, 0)
  /\ last' = Plain("sim_x11depth16to32", 0, 0)
  /\ UNCHANGED <<kconfig, xserver, g_x11_windows, g_fb, res, bad,
                 atexit_registered, atexit_handlers, proc, ninits, nfaults, screen, ndraws>>
  /\ UNCHANGED <<touchvars, loopvars>>

ConvNext == \E size \in Sizes : Convert(size)

SpecConv == ConvBoot /\ [][ConvNext]_vars

(***************************************************************************)
(* The indexed operations, called with any index                          *)
(***************************************************************************)

\* what sim_tsc_initialize(minor) returns; touch_register fails with -1
sim_tsc_initialize_returns(minor, regok) ==
  IF minor < 0 \/ minor >= CONFIG_SIM_SCREEN_COUNT THEN 0 - EINVAL
  ELSE IF ~regok THEN 0 - 1
  ELSE 0

\* a call of an operation, what it returned noted
IndexCall(op, index) ==
  /\ called' = Call(op, index, 0, last'.ret)
  /\ UNCHANGED <<touchvars, ndraws, loopvars>>

\* the indexed operations are called with any index, every host call
\* succeeding
IndexNext ==
  \/ \E display \in Indexes :
       /\ up_fbinitialize(display, NoFailure)
       /\ IndexCall("up_fbinitialize", display)
       /\ UNCHANGED <<mem, screen>>
  \/ \E display_idx \in Indexes \ Displays :
       /\ sim_x11initialize_call(display_idx, NoFailure)
       /\ IndexCall("sim_x11initialize", display_idx)
  \/ \E display_idx \in Indexes :
       /\ sim_x11openwindow(display_idx)
       /\ IndexCall("sim_x11openwindow", display_idx)
  \/ \E display_idx \in Indexes :
       /\ sim_x11closewindow(display_idx)
       /\ IndexCall("sim_x11closewindow", display_idx)
  \/ \E display_idx \in Indexes :
       /\ sim_x11setoffset(display_idx, 0)
       /\ IndexCall("sim_x11setoffset", display_idx)
  \/ \E display_idx \in Indexes, len \in 0 .. MaxColours :
       /\ sim_x11cmap(display_idx, 0, len, 0)
       /\ IndexCall("sim_x11cmap", display_idx)
  \/ \E display_idx \in Indexes :
       /\ sim_x11update(display_idx, FALSE)
       /\ IndexCall("sim_x11update", display_idx)
  \/ \E display \in Indexes, vplane \in {0, 1} :
       /\ up_fbgetvplane(display, vplane)
       /\ IndexCall("up_fbgetvplane", display)
  \/ \E minor \in TscMinors, regok \in BOOLEAN :
       /\ sim_tsc_initialize(minor, regok)
       /\ called' = Call("sim_tsc_initialize", minor, 0,
                         sim_tsc_initialize_returns(minor, regok))
       /\ UNCHANGED <<fbvars, mem, screen, ndraws, loopvars>>
  \/ \E display \in Indexes \ Displays :
       /\ sim_buttonevent_call(display, StreamSample)
       /\ called' = Call("sim_buttonevent", display, 0, 0)
       /\ UNCHANGED <<fbvars, mem, screen, ndraws, loopvars>>

SpecIndex == FbBoot /\ [][IndexNext]_vars

(***************************************************************************)
(* The periodic tick: displays come and go, pan requests are queued, the   *)
(* idle loop calls sim_x11loop at any pace                                 *)
(***************************************************************************)

\* the time between two calls of sim_x11loop, in ns
Delays == {15999999, 16000000}

\* the lines a pan request may ask for
PanLines == {0, 240}

\* one of the run's calls of sim_x11loop
Tick(dt, atsync) ==
  /\ nticks < MaxTicks
  /\ nticks' = nticks + 1
  /\ sim_x11loop(clock + dt, atsync)
  /\ UNCHANGED <<npans, called, ndraws>>
  /\ UNCHANGED touchvars

LoopNext ==
  \/ \E display \in Displays :
       /\ up_fbinitialize(display, NoFailure)
       /\ UNCHANGED <<touchvars, drawvars, loopvars>>
  \/ \E display \in Displays :
       /\ g_fb[display].initialized # 0
       /\ up_fbuninitialize(display)
       /\ UNCHANGED <<touchvars, drawvars, loopvars>>
  \/ \E display \in Displays, yoffset \in PanLines :
       /\ fb_add_paninfo(display, yoffset)
       /\ UNCHANGED <<touchvars, drawvars>>
  \/ \E dt \in Delays, atsync \in BOOLEAN : Tick(dt, atsync)

\* a build that converts 16-bit pixels for a 24-bit host, and one that
\* hands its frames over as they are
LoopPlatforms ==
  { [kconfig |-> Kconfig(16, 320, 240, 2, 0), xserver |-> XServer(24, TRUE)],
    [kconfig |-> Kconfig(32, 320, 240, 2, 8), xserver |-> XServer(32, FALSE)] }

LoopBoot ==
  TouchInit /\ FbInit /\ DrawInit /\ LoopInit /\ PlatformInit(LoopPlatforms)

SpecLoop == LoopBoot /\ [][LoopNext]_vars

\* a call of sim_x11loop 16 ms after the previous one
EligibleTick == \E atsync \in BOOLEAN : Tick(16000000, atsync)

\* the displays stay registered and the idle loop calls sim_x11loop every
\* 16 ms
PanNext ==
  \/ \E display \in Displays :
       /\ up_fbinitialize(display, NoFailure)
       /\ UNCHANGED <<touchvars, drawvars, loopvars>>
  \/ \E display \in Displays, yoffset \in PanLines :
       /\ fb_add_paninfo(display, yoffset)
       /\ UNCHANGED <<touchvars, drawvars>>
  \/ EligibleTick

\* the simulator's idle loop never stops calling sim_x11loop
SpecPan == LoopBoot /\ [][PanNext]_vars /\ WF_vars(EligibleTick)

(***************************************************************************)
(* The plane infos the generic layer asks the registered displays for      *)
(***************************************************************************)

\* the plane infos a caller passes: none, or one naming a display
PlaneInfos == {NULL} \cup {[display |-> r] : r \in 0 .. 2}

PlaneNext ==
  \/ \E display \in Displays :
       /\ up_fbinitialize(display, NoFailure)
       /\ UNCHANGED <<touchvars, drawvars, loopvars>>
  \/ \E display \in Displays, planeno \in {0, 1}, pinfo \in PlaneInfos :
       /\ g_fb[display].initialized # 0
       /\ sim_getplaneinfo(display, planeno, pinfo)
       /\ UNCHANGED <<touchvars, loopvars>>

SpecPlane == FbBoot /\ [][PlaneNext]_vars

(***************************************************************************)
(* The palettes the generic layer sets on the registered displays          *)
(***************************************************************************)

\* where a palette update starts
Firsts == {0, 5, 254}

\* how many colours a palette update has
Lens == 0 .. (MaxColours + 2)

PaletteNext ==
  \/ \E display \in Displays :
       /\ up_fbinitialize(display, NoFailure)
       /\ called' = Call("up_fbinitialize", display, 0, last'.ret)
       /\ UNCHANGED <<touchvars, mem, screen, ndraws, loopvars>>
  \/ \E display \in Displays, first \in Firsts, len \in Lens :
       \E fails \in 0 .. len :
         /\ g_fb[display].initialized # 0
         /\ sim_putcmap(display, first, len, fails)
         /\ called' = Call("sim_putcmap", display, <<first, len>>, last'.ret)
         /\ UNCHANGED <<touchvars, ndraws, loopvars>>

SpecPalette == FbBoot /\ [][PaletteNext]_vars

(***************************************************************************)
(* The windows in use: host calls may fail, the application draws and pans *)
(***************************************************************************)

\* one of the run's calls of an operation on a window
WindowCall(op, index, arg) ==
  /\ ndraws < MaxCalls
  /\ ndraws' = ndraws + 1
  /\ called' = Call(op, index, arg, last'.ret)
  /\ UNCHANGED <<touchvars, loopvars>>

WindowNext ==
  \/ \E display \in Displays, o \in Affordable :
       /\ up_fbinitialize(display, o)
       /\ called' = Call("up_fbinitialize", display, 0, last'.ret)
       /\ UNCHANGED <<touchvars, mem, screen, ndraws, loopvars>>
  \/ \E display_idx \in Displays :
       /\ sim_x11openwindow(display_idx)
       /\ WindowCall("sim_x11openwindow", display_idx, 0)
  \/ \E display_idx \in Displays :
       /\ sim_x11closewindow(display_idx)
       /\ WindowCall("sim_x11closewindow", display_idx, 0)
  \/ \E display_idx \in Displays, yoffset \in YOffsets :
       /\ sim_x11setoffset(display_idx,
                           yoffset * g_fb[display_idx].planeinfo.stride)
       /\ WindowCall("sim_x11setoffset", display_idx,
                     yoffset * g_fb[display_idx].planeinfo.stride)
  \/ \E display_idx \in Displays, len \in 0 .. MaxColours :
       \E fails \in 0 .. len :
         /\ sim_x11cmap(display_idx, 0, len, fails)
         /\ WindowCall("sim_x11cmap", display_idx, 0)
  \/ \E display_idx \in Displays, atsync \in BOOLEAN :
       /\ sim_x11update(display_idx, atsync)
       /\ WindowCall("sim_x11update", display_idx, 0)
  \/ \E display \in Displays, yoffset \in YOffsets, full \in Colours :
       /\ Draw(display, yoffset, full)
       /\ WindowCall("Draw", display, yoffset)

SpecWindow == FbBoot /\ [][WindowNext]_vars

\* the host has samples left to deliver to a valid display
Budget(display, max) ==
  display \in Displays => Len(posted[display]) < max

TouchSteps ==
  \/ \E minor \in TscMinors, regok \in BOOLEAN :
       sim_tsc_initialize(minor, regok)
  \/ sim_tsc_uninitialize
  \/ sim_buttonevent_write
  \/ sim_buttonevent_publish
  \/ sim_buttonevent_workqueue
  \/ \E d \in Displays : sim_touch_worker_start(d)
  \/ sim_touch_worker_test
  \/ sim_touch_worker_load
  \/ sim_touch_worker_storetail
  \/ sim_touch_worker_process

\* the host delivers any samples, a few of them
TouchNext ==
  /\ \/ TouchSteps
     \/ \E display \in Indexes, s \in Samples :
          Budget(display, MaxFree) /\ sim_buttonevent_call(display, s)
  /\ UNCHANGED fbvars
  /\ UNCHANGED drawvars
  /\ UNCHANGED loopvars

\* the host delivers a long run of samples
QueueNext ==
  /\ \/ TouchSteps
     \/ \E display \in Indexes :
          /\ Budget(display, MaxPosts)
          /\ sim_buttonevent_call(display, StreamSample)
  /\ UNCHANGED fbvars
  /\ UNCHANGED drawvars
  /\ UNCHANGED loopvars

\* the state after boot for the runs that follow the touchscreen
TouchBoot ==
  /\ TouchInit /\ FbInit /\ DrawInit /\ LoopInit
  /\ PlatformInit({TouchPlatform})

SpecTouch == TouchBoot /\ [][TouchNext]_vars

SpecQueue == TouchBoot /\ [][QueueNext]_vars

(***************************************************************************)
(* The queue under a scheduler that runs what is runnable                  *)
(***************************************************************************)

\* the samples the host delivers: presses and releases in the first window,
\* the pointer at rest in the second, where one sample is taken
DrainSamples ==
  [d \in Displays |->
     IF d = 0
       THEN {sim_touch_event_s(10, 10, 1), sim_touch_event_s(10, 10, 0)}
       ELSE {StreamSample}]

\* a sim_buttonevent call in progress goes on
ProducerRuns ==
  /\ \/ sim_buttonevent_write
     \/ sim_buttonevent_publish
     \/ sim_buttonevent_workqueue
  /\ UNCHANGED <<fbvars, drawvars, loopvars>>

\* the HPWORK thread runs the work queued on it, and the worker it called
WorkerRuns ==
  /\ \/ \E d \in Displays : sim_touch_worker_start(d)
     \/ sim_touch_worker_test
     \/ sim_touch_worker_load
     \/ sim_touch_worker_storetail
     \/ sim_touch_worker_process
  /\ UNCHANGED <<fbvars, drawvars, loopvars>>

\* the board registers and unregisters, the host delivers samples
DrainNext ==
  \/ /\ \/ \E minor \in Displays, regok \in BOOLEAN :
             sim_tsc_initialize(minor, regok)
        \/ sim_tsc_uninitialize
        \/ \E display \in Displays : \E s \in DrainSamples[display] :
             /\ Budget(display, IF display = 0 THEN MaxDrains ELSE 1)
             /\ sim_buttonevent_call(display, s)
     /\ UNCHANGED <<fbvars, drawvars, loopvars>>
  \/ ProducerRuns
  \/ WorkerRuns

\* deferred work that is scheduled eventually runs, and a call that was
\* entered goes on to its return
SpecDrain ==
  TouchBoot /\ [][DrainNext]_vars /\ WF_vars(ProducerRuns)
    /\ WF_vars(WorkerRuns)

(***************************************************************************)
(* Samples for devices that are registered, not registered or no longer    *)
(* registered                                                              *)
(***************************************************************************)

\* the host calls sim_buttonevent; the record of the call has the number of
\* samples the device had taken before it
ButtonCall(display, s) ==
  /\ ndraws < MaxCalls
  /\ ndraws' = ndraws + 1
  /\ sim_buttonevent_call(display, s)
  /\ called' = Call("sim_buttonevent", display, s, Len(posted[display]))
  /\ UNCHANGED <<mem, screen>>

ButtonNext ==
  /\ \/ /\ \/ \E minor \in Displays, regok \in BOOLEAN :
                 sim_tsc_initialize(minor, regok)
            \/ sim_tsc_uninitialize
            \/ sim_buttonevent_write
            \/ sim_buttonevent_publish
            \/ sim_buttonevent_workqueue
            \/ \E d \in Displays : sim_touch_worker_start(d)
            \/ sim_touch_worker_test
            \/ sim_touch_worker_load
            \/ sim_touch_worker_storetail
            \/ sim_touch_worker_process
        /\ UNCHANGED drawvars
     \/ \E display \in Displays, s \in Samples : ButtonCall(display, s)
  /\ UNCHANGED fbvars
  /\ UNCHANGED loopvars

SpecButton == TouchBoot /\ [][ButtonNext]_vars

(***************************************************************************)
(* A device in use: the contacts it has seen have left it with any contact *)
(* state and any id                                                        *)
(***************************************************************************)

\* the contact and the id of a device: as registered, or after contacts (the
\* 255th, the 256th and the 257th among them)
UsedDevices ==
  {[contact |-> 0, id |-> 0]}
    \cup {[contact |-> c, id |-> i] :
            c \in {TOUCH_UP, TOUCH_DOWN, TOUCH_MOVE}, i \in {0, 1, 255}}

\* device 0 is registered and at rest
ContactBoot ==
  /\ \E u \in UsedDevices :
       g_simtouchscreen =
         [d \in Displays |->
            IF d = 0
              THEN [ZeroDev EXCEPT !.maxpoint = 1, !.eventloop = 1,
                                   !.contact = u.contact, !.id = u.id]
              ELSE ZeroDev]
  /\ work = AllFalse
  /\ registered = {0}
  /\ pcP = "idle"
  /\ pL = NoLocals
  /\ pcW = "idle"
  /\ wL = NoLocals
  /\ reports = EmptySeqs
  /\ posted = EmptySeqs
  /\ loaded = EmptySeqs
  /\ drained = EmptySeqs
  /\ popped = [d \in Displays |-> 0]
  /\ earlyRead = AllFalse
  /\ overwritten = AllFalse
  /\ dropped = AllFalse
  /\ FbInit /\ DrawInit /\ LoopInit
  /\ PlatformInit({TouchPlatform})

\* the host passes samples, the worker drains them
ContactNext ==
  /\ \/ \E s \in Samples :
          Budget(0, MaxContacts) /\ sim_buttonevent_call(0, s)
     \/ sim_buttonevent_write
     \/ sim_buttonevent_publish
     \/ sim_buttonevent_workqueue
     \/ sim_touch_worker_start(0)
     \/ sim_touch_worker_test
     \/ sim_touch_worker_load
     \/ sim_touch_worker_storetail
     \/ sim_touch_worker_process
  /\ UNCHANGED fbvars
  /\ UNCHANGED drawvars
  /\ UNCHANGED loopvars

SpecContact == ContactBoot /\ [][ContactNext]_vars

(***************************************************************************)
(* Displays that fail to initialize beside displays and a touchscreen in   *)
(* use                                                                     *)
(***************************************************************************)

\* the outcomes in which at most one host call fails, within the run's
\* failures
SingleFailure == OutcomesUpTo[IF nfaults < MaxFaults THEN 1 ELSE 0]

PublishNext ==
  \/ \E display \in Indexes, o \in SingleFailure :
       /\ ndraws < MaxCalls
       /\ ndraws' = ndraws + 1
       /\ up_fbinitialize(display, o)
       /\ called' = Call("up_fbinitialize", display, 0, last'.ret)
       /\ UNCHANGED <<touchvars, mem, screen, loopvars>>
  \/ \E display \in Displays :
       /\ last.op = "up_fbinitialize"
       /\ display = called.index
       /\ up_fbgetvplane(display, 0)
       /\ UNCHANGED <<touchvars, drawvars, loopvars>>
  \/ \E display \in Displays :
       /\ paninfo[display] = << >>
       /\ fb_add_paninfo(display, 240)
       /\ UNCHANGED <<touchvars, drawvars>>
  \/ nticks < ndraws /\ EligibleTick
  \/ /\ \/ sim_tsc_initialize(0, TRUE)
        \/ Budget(0, 1) /\ sim_buttonevent_call(0, StreamSample)
     /\ UNCHANGED <<fbvars, drawvars, loopvars>>

\* a build that converts for a 24-bit host
PublishPlatforms ==
  { [kconfig |-> Kconfig(16, 320, 240, 2, 0), xserver |-> XServer(24, TRUE)] }

PublishBoot ==
  /\ TouchInit /\ FbInit /\ DrawInit /\ LoopInit
  /\ PlatformInit(PublishPlatforms)

SpecPublish == PublishBoot /\ [][PublishNext]_vars

(***************************************************************************)
(* Touchscreen properties                                                  *)
(***************************************************************************)

RECURSIVE IdealKinds(_, _)
\* the reports of a contact state machine that starts with no contact
\* active: DOWN, MOVE*, UP cycles
IdealKinds(samples, active) ==
  IF samples = <<>> THEN <<>>
  ELSE LET s == Head(samples) IN
       IF s.buttons = 0
         THEN (IF active THEN <<"UP">> ELSE <<>>)
                \o IdealKinds(Tail(samples), FALSE)
         ELSE (IF active THEN <<"MOVE">> ELSE <<"DOWN">>)
                \o IdealKinds(Tail(samples), TRUE)

ReportKind(r) ==
  IF r.flags = TOUCH_UP + TOUCH_ID_VALID THEN "UP"
  ELSE IF r.flags = TOUCH_DOWN + TOUCH_ID_VALID + TOUCH_POS_VALID
                      + TOUCH_PRESSURE_VALID THEN "DOWN"
  ELSE IF r.flags = TOUCH_MOVE + TOUCH_ID_VALID + TOUCH_POS_VALID
                      + TOUCH_PRESSURE_VALID THEN "MOVE"
  ELSE "other"

Kinds(rs) == [i \in 1 .. Len(rs) |-> ReportKind(rs[i])]

IsPrefix(a, b) ==
  /\ Len(a) <= Len(b)
  /\ \A i \in 1 .. Len(a) : a[i] = b[i]

\* C1: after registration, the reports the worker has emitted for the samples
\* it drained are DOWN, MOVE*, UP cycles: a release with no contact active
\* emits nothing, the first press of a cycle DOWN, further presses MOVE, the
\* first release after a press UP (so 0, 1, 1, 0 emits DOWN, MOVE, UP).
C1_ContactCycles ==
  \A d \in Displays :
    Kinds(reports[d]) = IdealKinds(drained[d], FALSE)

\* the samples published (head stored) and not yet popped (tail stored)
Unconsumed(d) == Published(d) - popped[d]

\* C2: on a registered device head and tail stay in 0..15, at most 15 samples
\* are unconsumed, head != tail exactly when a sample is unconsumed, and
\* (head + 1) mod 16 == tail exactly when the queue is full.
C2_QueueIndexes ==
  \A d \in Displays :
    g_simtouchscreen[d].eventloop # 0 =>
      LET priv == g_simtouchscreen[d] IN
      /\ priv.head \in 0 .. 15
      /\ priv.tail \in 0 .. 15
      /\ Unconsumed(d) \in 0 .. 15
      /\ (priv.head # priv.tail) <=> (Unconsumed(d) > 0)
      /\ ((priv.head + 1) % 16 = priv.tail) <=> (Unconsumed(d) = 15)

\* a registered device whose queue is full after its indexes wrapped around,
\* both threads at work
C2_Witness ==
  \E d \in Displays :
    /\ g_simtouchscreen[d].eventloop # 0
    /\ (g_simtouchscreen[d].head + 1) % 16 = g_simtouchscreen[d].tail
    /\ g_simtouchscreen[d].head < g_simtouchscreen[d].tail
    /\ Unconsumed(d) = 15
    /\ pcW = "pop"

\* C3: the producer goes on to write a slot only when the queue is not full,
\* and it never writes a slot whose sample the worker has not consumed.
C3_NeverWrittenWhenFull ==
  /\ (pcP = "store" /\ ~pL.b) =>
        pL.next # g_simtouchscreen[pL.dev].tail
  /\ \A d \in Displays : ~overwritten[d]

\* a sample was dropped on a full queue, and later the producer wrote a slot
\* again after the indexes wrapped around
C3_Witness ==
  \E d \in Displays :
    /\ dropped[d]
    /\ Len(posted[d]) > TOUCH_BUF_SIZE
    /\ Written(d) = Len(posted[d])

\* C4: the worker reads every accepted sample once, in the order of
\* acceptance, with the values posted, and never before the producer's
\* write of the slot.
C4_FifoHandoff ==
  \A d \in Displays :
    /\ IsPrefix(loaded[d], posted[d])
    /\ ~earlyRead[d]

(***************************************************************************)
(* Framebuffer properties                                                  *)
(***************************************************************************)

\* resource id is of kind and held
Held(id, kind) ==
  /\ id \in 1 .. Len(res)
  /\ res[id].kind = kind
  /\ res[id].live

\* the full efficient path is active for window d
EfficientPath(d) ==
  LET w == g_x11_windows[d]
  IN /\ w.useshm = 1
     /\ Held(w.image, "shmimage")
     /\ Held(w.shmid, "seg")
     /\ Held(w.shmaddr.base, "shmat")
     /\ res[w.shmaddr.base].of = w.shmid
     /\ \E i \in 1 .. Len(res) :
          /\ Held(i, "xattach")
          /\ res[i].of = w.shmid
          /\ res[i].data = Ptr(w.display, 0)
     /\ w.shmcheckpoint = 5
     /\ w.framebuffer = w.shmaddr
     /\ res[w.image].data = w.shmaddr

\* the full degraded path is active for window d
DegradedPath(d) ==
  LET w == g_x11_windows[d]
  IN /\ w.useshm = 0
     /\ Held(w.framebuffer.base, "heap")
     /\ w.framebuffer.off = 0
     /\ Held(w.image, "image")
     /\ res[w.image].data = w.framebuffer
     /\ w.shmcheckpoint = 2

\* the last operation was an up_fbinitialize that reached
\* sim_x11mapsharedmem
Acquired ==
  /\ last.op = "up_fbinitialize"
  /\ last.mapped

\* the calls of the last operation that failed
Failed == { i \in 1 .. Len(last.calls) : ~last.calls[i].ok }

\* the last operation made a call of f that failed
FailedIn(f) == \E i \in Failed : last.calls[i].f = f

\* C5: when sim_x11mapsharedmem returns, the window is on the full
\* efficient path or on the full degraded path, never in between
C5_AcquireNeverPartial ==
  Acquired => EfficientPath(last.d) \/ DegradedPath(last.d)


\* the steps of the efficient path, in the order sim_x11mapsharedmem takes
\* them
Ladder == <<"XShmCreateImage", "shmget", "shmat", "XShmAttach">>

\* the call that undoes an acquisition step
Undo(f) ==
  CASE f = "XShmAttach" -> "XShmDetach"
    [] f = "shmat" -> "shmdt"
    [] f = "shmget" -> "shmctl"
    [] f = "XShmCreateImage" -> "XDestroyImage"
    [] f = "XCreateImage" -> "XDestroyImage"

Undos == {"XShmDetach", "shmdt", "shmctl", "XDestroyImage"}

Range(s) == { s[i] : i \in 1 .. Len(s) }

Reverse(s) == [i \in 1 .. Len(s) |-> s[Len(s) + 1 - i]]

\* the names of the calls of the last operation that are made for window d,
\* are in names and, if done, succeeded
CallsOf(d, names, done) ==
  LET sel == SelectSeq(last.calls,
                       LAMBDA c : c.d = d /\ c.f \in names /\ (done => c.ok))
  IN [i \in 1 .. Len(sel) |-> sel[i].f]

\* the undo calls of the acquisition steps, last step first
UndoOf(steps) == Reverse([i \in 1 .. Len(steps) |-> Undo(steps[i])])

\* the resources the last operation acquired on the efficient path
Abandoned ==
  { id \in (last.base + 1) .. Len(res) :
      res[id].kind \in {"shmimage", "seg", "shmat", "xattach"} }

\* C6: when one step of the efficient path fails and nothing else does,
\* acquisition ends on the degraded path and what the earlier steps
\* acquired has been released once, last acquired first
C6_FallbackReleasesAll ==
  ( /\ Acquired
    /\ Cardinality(Failed) = 1
    /\ \E f \in Range(Ladder) : FailedIn(f) )
  => /\ DegradedPath(last.d)
     /\ \A id \in Abandoned : res[id].rel = 1 /\ ~res[id].live
     /\ CallsOf(last.d, Undos, FALSE) =
          UndoOf(CallsOf(last.d, Range(Ladder), TRUE))

\* C7: an error the X server reports between sim_x11traperrors and
\* sim_x11untraperrors makes acquisition fall back to the degraded path and
\* is not returned by up_fbinitialize
C7_TrappedErrorFallsBack ==
  (Acquired /\ FailedIn("XErrorEvent"))
  => /\ DegradedPath(last.d)
     /\ last.ret >= 0

\* C8: when malloc of the framebuffer or XCreateImage fails on the degraded
\* path, up_fbinitialize returns an error and leaves the display
\* uninitialized
C8_DegradedFailureIsFatal ==
  (Acquired /\ (FailedIn("malloc(framebuffer)") \/ FailedIn("XCreateImage")))
  => /\ last.ret < 0
     /\ g_fb[last.d].initialized = 0

\* C9: after sim_x11uninit, a window that was acquired, on the efficient or
\* on the degraded path, has checkpoint 0 and everything acquired for it has
\* been released exactly once
C9_ReleasedExactlyOnce ==
  last.op = "sim_x11uninit"
  => \A d \in Displays :
       last.pre[d].shmcheckpoint > 1
       => /\ g_x11_windows[d].shmcheckpoint = 0
          /\ \A id \in 1 .. Len(res) :
               res[id].owner = d => res[id].rel = 1

\* the acquisition steps the checkpoint of window w shows as completed
StepsShown(w) ==
  LET steps == IF w.useshm = 1 THEN Ladder ELSE <<"XCreateImage">>
      n == IF w.shmcheckpoint > 1 THEN w.shmcheckpoint - 1 ELSE 0
  IN SubSeq(steps, 1, IF n > Len(steps) THEN Len(steps) ELSE n)

C11_UninitializeReleases ==
  last.op = "up_fbuninitialize"
  => /\ g_x11_windows[last.d].shmcheckpoint = 0
     /\ \A id \in 1 .. Len(res) : res[id].owner = last.d => ~res[id].live

\* the last operation was an up_fbinitialize that ran sim_x11initialize to
\* its successful end
Initialized ==
  /\ Acquired
  /\ last.ret = 0

\* C12: a successful sim_x11initialize reports stride = depth * width / 8 and
\* length = stride * height for the depth it reports, times the number of
\* buffers exactly when the interval is 0; 320 x 240, 2 buffers, interval 0
\* at depth 16 gives 640 and 2 * 153600
C12_Layout ==
  Initialized
  => LET p == g_fb[last.d].planeinfo
         stride == (p.bpp * kconfig.width) \div 8
         length == stride * kconfig.height
     IN /\ p.stride = stride
        /\ p.fblen = IF kconfig.interval = 0
                       THEN length * kconfig.fbcount
                       ELSE length
        /\ ( /\ kconfig = Kconfig(16, 320, 240, 2, 0)
             /\ p.bpp = 16 )
           => /\ p.stride = 640
              /\ length = 153600
              /\ p.fblen = 307200

\* the last operation was an up_fbinitialize whose sim_x11initialize opened
\* the display, and so came to the depth check
DepthChecked ==
  /\ last.op = "up_fbinitialize"
  /\ \E i \in DOMAIN last.calls :
        last.calls[i].f = "XOpenDisplay" /\ last.calls[i].ok

\* the last sim_x11initialize returned at the depth check
DepthRefused ==
  /\ DepthChecked
  /\ last.ret = 0 - 1
  /\ ~last.mapped

\* C13: a host depth of 24 counts as 32, and sim_x11initialize fails at the
\* depth check exactly when the normalised host depth is neither
\* CONFIG_SIM_FBBPP nor 32 and CONFIG_SIM_FBBPP is not 16; otherwise it goes
\* on to map the framebuffer
C13_DepthCheck ==
  DepthChecked
  => LET host == IF xserver.depth = 24 THEN 32 ELSE xserver.depth
     IN /\ DepthRefused <=> ( /\ host # kconfig.bpp
                              /\ host # 32
                              /\ kconfig.bpp # 16 )
        /\ ~DepthRefused => /\ last.mapped
                            /\ g_x11_windows[last.d].fbbpp = host

\* a 32-bit build on a 16-bit host is refused
C13_Witness ==
  /\ DepthRefused
  /\ kconfig.bpp = 32
  /\ xserver.depth = 16

\* C14: on a host of depth 32 (or 24) a 16-bit build is initialized, reports
\* bpp 16 with stride and length at depth 16 and gets a conversion buffer
\* that is an allocation of its own; every other accepted combination gets
\* the primary buffer and allocates no conversion buffer
C14_ConversionBuffer ==
  (DepthChecked /\ ~DepthRefused)
  => LET host == IF xserver.depth = 24 THEN 32 ELSE xserver.depth
         w == g_x11_windows[last.d]
         p == g_fb[last.d].planeinfo
         stride == (16 * kconfig.width) \div 8
         length == stride * kconfig.height
     IN IF host = 32 /\ kconfig.bpp = 16
          THEN /\ last.ret = 0
               /\ p.bpp = 16
               /\ p.stride = stride
               /\ p.fblen = IF kconfig.interval = 0
                              THEN length * kconfig.fbcount
                              ELSE length
               /\ p.fbmem # NULL
               /\ p.fbmem = w.trans_framebuffer
               /\ p.fbmem.base # w.framebuffer.base
               /\ res[p.fbmem.base].kind = "heap"
               /\ res[p.fbmem.base].live
          ELSE /\ p.fbmem = w.framebuffer
               /\ w.trans_framebuffer = NULL
               /\ \A i \in DOMAIN last.calls :
                     last.calls[i].f # "malloc(trans_framebuffer)"

\* the operations on a window that need it initialized
NeedsWindow ==
  {"sim_x11openwindow", "sim_x11closewindow", "sim_x11setoffset",
   "sim_x11update", "sim_x11cmap"}

\* C15: open, close, setOffset, pushUpdate and setPalette on a valid index
\* return -ENODEV, call nothing and change nothing while no initialize of
\* that index has succeeded, be it never called or failed each time
C15_NotInitialized ==
  ( /\ last.op \in NeedsWindow
    /\ last.d \in Displays
    /\ g_fb[last.d].initialized = 0 )
  => /\ proc = "running"
     /\ last.ret = 0 - ENODEV
     /\ last.calls = << >>
     /\ g_x11_windows = last.pre
     /\ ~screen[last.d].mapped

\* the operations that take an index, and what each returns for one out of
\* range: -EINVAL, NULL for up_fbgetvplane, nothing for sim_buttonevent
InvalidIndexOutcome ==
  [op \in {"sim_x11initialize", "sim_x11openwindow", "sim_x11closewindow",
           "sim_x11setoffset", "sim_x11update", "sim_x11cmap",
           "up_fbinitialize", "sim_tsc_initialize"} |-> 0 - EINVAL]
    @@ [op \in {"up_fbgetvplane", "sim_buttonevent"} |-> 0]

\* C16: an indexed operation called with an index below 0 or not below the
\* configured count returns the invalid-index outcome and leaves every
\* display context and every touch device as it was
C16_InvalidIndex ==
  [][ ( /\ called'.op \in DOMAIN InvalidIndexOutcome
        /\ called'.index \notin Displays )
      => /\ called'.ret = InvalidIndexOutcome[called'.op]
         /\ UNCHANGED <<g_x11_windows, g_fb, g_simtouchscreen, registered,
                        res, bad, mem, screen, proc, atexit_registered>>
    ]_vars

\* an operation on a window was called with an index out of range while a
\* display was initialized
C16_Witness ==
  /\ called.op = "sim_x11update"
  /\ called.index = CONFIG_SIM_SCREEN_COUNT
  /\ called.ret = 0 - EINVAL
  /\ g_fb[0].initialized # 0

\* the last operation was a sim_x11update of an initialized display that
\* returned
Updated ==
  /\ last.op = "sim_x11update"
  /\ last.d \in Displays
  /\ g_fb[last.d].initialized # 0
  /\ proc = "running"
  /\ last.ret = 0

\* C17: a sim_x11update of an initialized display on a host of depth 32
\* under a 16-bit build puts on the window the logical buffer's contents as
\* of that call, converted; in every other combination it blits without
\* converting
C17_ConvertsBeforeBlit ==
  Updated
  => LET w == g_x11_windows[last.d]
     IN IF w.fbbpp = 32 /\ kconfig.bpp = 16
          THEN LET src == Read(Plus(w.trans_framebuffer, w.offset))
               IN src # Unwritten => screen[last.d].frame = Pixel32(src)
          ELSE /\ \A i \in DOMAIN last.calls :
                    last.calls[i].f # "sim_x11depth16to32"
               /\ screen[last.d].frame = Read(res[w.image].data)

\* the last operation was a sim_x11setoffset of an initialized display
PannedInitialized ==
  /\ last.op = "sim_x11setoffset"
  /\ last.d \in Displays
  /\ g_fb[last.d].initialized # 0

\* C18: sim_x11setoffset(index, off) on an initialized display returns 0,
\* makes the image start at framebuffer + 2 * off and records off on a host
\* of depth 32 under a 16-bit build, makes it start at framebuffer + off
\* otherwise, and changes nothing else of the window and no other window
C18_SetOffset ==
  PannedInitialized
  => LET w == g_x11_windows[last.d]
         off == called.arg
         converts == w.fbbpp = 32 /\ kconfig.bpp = 16
     IN /\ proc = "running"
        /\ last.ret = 0
        /\ w.image \in 1 .. Len(res)
        /\ res[w.image].data =
             Plus(w.framebuffer, IF converts THEN 2 * off ELSE off)
        /\ g_x11_windows =
             [last.pre EXCEPT
                ![last.d].offset = IF converts THEN off ELSE @]

\* a / b rounded to the nearest integer, a >= 0 and b > 0
Round(a, b) == (2 * a + b) \div (2 * b)

\* the last operation was a conversion
Converted == called.op = "sim_x11depth16to32"

\* C19: the conversion of a 5-bit channel r is round(r * 255 / 31), of a
\* 6-bit channel g round(g * 255 / 63)
C19_Rounding ==
  Converted
  => \A k \in 1 .. (called.arg \div 4) :
       LET s == Read(Plus(SrcBuffer, 2 * (k - 1)))
           d == Read(Plus(DstBuffer, 4 * (k - 1)))
       IN /\ d.red = Round(s.red * 255, 31)
          /\ d.blue = Round(s.blue * 255, 31)
          /\ d.green = Round(s.green * 255, 63)

\* C20: a conversion over size bytes stores size / 4 pixels, pixel k from
\* source pixel k alone, each with alpha 255 and channels in 0 .. 255, the
\* least channel value as 0 and the greatest as 255
C20_Conversion ==
  Converted
  => /\ { a \in DOMAIN mem : a[1] = DstBuffer.base }
          = { <<DstBuffer.base, 4 * (k - 1)>> :
                k \in 1 .. (called.arg \div 4) }
     /\ \A k \in 1 .. (called.arg \div 4) :
          LET s == Read(Plus(SrcBuffer, 2 * (k - 1)))
              d == Read(Plus(DstBuffer, 4 * (k - 1)))
          IN /\ d.alpha = 255
             /\ d.red \in 0 .. 255
             /\ d.green \in 0 .. 255
             /\ d.blue \in 0 .. 255
             /\ s.red = 0 => d.red = 0
             /\ s.green = 0 => d.green = 0
             /\ s.blue = 0 => d.blue = 0
             /\ s.red = 31 => d.red = 255
             /\ s.green = 63 => d.green = 255
             /\ s.blue = 31 => d.blue = 255

\* (31,63,31) and (0,0,0) have been converted, in that order
C20_Witness ==
  /\ Converted
  /\ called.arg = 8
  /\ Read(SrcBuffer) = [blue |-> 31, green |-> 63, red |-> 31]
  /\ Read(Plus(SrcBuffer, 2)) = [blue |-> 0, green |-> 0, red |-> 0]
  /\ Read(DstBuffer) = [red |-> 255, green |-> 255, blue |-> 255,
                        alpha |-> 255]
  /\ Read(Plus(DstBuffer, 4)) = [red |-> 0, green |-> 0, blue |-> 0,
                                 alpha |-> 255]

(***************************************************************************)
(* The periodic tick                                                       *)
(***************************************************************************)

\* the reading at which the body of sim_x11loop last ran
LastBody == bodies[Len(bodies)]

\* this step is a call of sim_x11loop
Ticked == nticks' = nticks + 1

\* C21: with a clock that never goes back, the body of the tick runs at most
\* once per 16 ms: the readings of two consecutive executions of the body are
\* at least 16,000,000 ns apart, and a call made less than 16 ms after the
\* last execution notifies nobody, leaves every pan queue, every offset and
\* the timestamp as they were and pushes no update
C21_TickRate ==
  [][Ticked /\ bodies # << >> =>
       /\ bodies' # bodies => bodies'[Len(bodies')] - LastBody >= 16000000
       /\ clock' - LastBody < 16000000 =>
            /\ last'.calls = << >>
            /\ bodies' = bodies
            /\ paninfo' = paninfo
            /\ g_x11_windows' = g_x11_windows
            /\ res' = res
            /\ screen' = screen
            /\ sim_x11loop_last' = sim_x11loop_last]_vars

\* the body has run twice, 16 ms apart, and a call 15,999,999 ns later has
\* found a display with a pan request and has left it alone
C21_Witness ==
  /\ Len(bodies) = 2
  /\ bodies[2] - bodies[1] = 16000000
  /\ last.op = "sim_x11loop"
  /\ last.ret = 0
  /\ clock - LastBody = 15999999
  /\ \E d \in Displays : g_fb[d].initialized # 0 /\ Len(paninfo[d]) = 2

\* this step is a call of sim_x11loop that ran the body
BodyRan == Ticked /\ last'.op = "sim_x11loop" /\ last'.ret = 1

\* the calls sim_x11loop itself makes, out of all the calls of a tick
LoopCalls(calls) ==
  SelectSeq(calls,
            LAMBDA c : c.f \in {"fb_notify_vsync", "fb_remove_paninfo",
                                "sim_x11setoffset", "sim_x11update"})

\* the calls expected for display i with its pan requests
ExpectedCalls(i, queue) ==
  LET call(f) == <<[f |-> f, d |-> i, ok |-> TRUE]>>
  IN call("fb_notify_vsync")
       \o (IF Len(queue) > 1 THEN call("fb_remove_paninfo") ELSE << >>)
       \o (IF Len(queue) > 0 THEN call("sim_x11setoffset") ELSE << >>)
       \o call("sim_x11update")

RECURSIVE ExpectedFrom(_)
\* the calls expected for the initialized displays from i on
ExpectedFrom(i) ==
  IF i >= CONFIG_SIM_X11NWINDOWS THEN << >>
  ELSE (IF g_fb[i].initialized # 0 THEN ExpectedCalls(i, paninfo[i])
        ELSE << >>) \o ExpectedFrom(i + 1)

\* where the host image of window w reads when offset is applied
AppliedAt(w, offset) ==
  IF w.fbbpp = 32 /\ kconfig.bpp = 16 THEN Plus(w.framebuffer, offset * 2)
  ELSE Plus(w.framebuffer, offset)

\* C22: a tick that runs the body goes through the displays in order; for an
\* initialized display it notifies the vsync, then removes the oldest pan
\* request if more than one is pending, then applies yoffset * stride of the
\* request now oldest, if there is one, through sim_x11setoffset, then calls
\* sim_x11update in any case; for a display not initialized it does none of
\* the four
C22_TickOrder ==
  [][BodyRan =>
       /\ LoopCalls(last'.calls) = ExpectedFrom(0)
       /\ \A i \in Displays :
            IF g_fb[i].initialized # 0
              THEN /\ paninfo'[i] = IF Len(paninfo[i]) > 1
                                      THEN Tail(paninfo[i]) ELSE paninfo[i]
                   /\ paninfo'[i] # << >> =>
                        res'[g_x11_windows'[i].image].data =
                          AppliedAt(g_x11_windows'[i],
                                    Head(paninfo'[i]).yoffset
                                      * Head(paninfo'[i]).stride)
              ELSE /\ paninfo'[i] = paninfo[i]
                   /\ g_x11_windows'[i] = g_x11_windows[i]
                   /\ screen'[i] = screen[i]]_vars

\* a tick has served display 1, where line 240 waited behind an older
\* request, and has passed over display 0, uninitialized with a request left
C22_Witness ==
  /\ last.op = "sim_x11loop"
  /\ last.ret = 1
  /\ g_fb[0].initialized = 0
  /\ paninfo[0] # << >>
  /\ g_fb[1].initialized # 0
  /\ Len(paninfo[1]) = 1
  /\ paninfo[1][1].yoffset = 240
  /\ LoopCalls(last.calls) =
       ExpectedCalls(1, <<paninfo[1][1], paninfo[1][1]>>)

\* C23: after every tick that runs the body, the pan queue of each
\* initialized display holds at most one pending request, whatever number of
\* requests had been queued before the tick
C23_OnePending ==
  last.op = "sim_x11loop" /\ last.ret = 1 =>
    \A i \in Displays :
      g_fb[i].initialized # 0 => fb_paninfo_count(paninfo[i]) <= 1

\* the generic layer has queued its last request, display d is initialized
\* with requests pending and a tick is still to come for each of them
PanSettled(d) ==
  /\ npans = MaxPans
  /\ g_fb[d].initialized # 0
  /\ paninfo[d] # << >>
  /\ MaxTicks - nticks >= Len(paninfo[d])

\* the host image of display d reads at the offset of the request queued last
LatestApplied(d) ==
  /\ paninfo[d] # << >>
  /\ g_x11_windows[d].image # 0
  /\ res[g_x11_windows[d].image].data =
       AppliedAt(g_x11_windows[d],
                 paninfo[d][Len(paninfo[d])].yoffset
                   * paninfo[d][Len(paninfo[d])].stride)

\* C24: once the generic layer has stopped queuing pan requests for an
\* initialized display and ticks that run the body keep coming, the offset
\* applied through sim_x11setoffset becomes that of the request queued last
\* and stays so, whether the earlier requests were applied or not
C24_LatestPanWins ==
  \A d \in Displays : [](PanSettled(d) => <>[]LatestApplied(d))

\* three requests for display 0 and two ticks: the first request was removed
\* without being applied, the offset is that of the last one, line 240
C24_Witness ==
  /\ npans = 3
  /\ Len(bodies) = 2
  /\ paninfo[1] = << >>
  /\ Len(paninfo[0]) = 1
  /\ paninfo[0][1].yoffset = 240
  /\ LatestApplied(0)

(***************************************************************************)
(* The plane of a display                                                  *)
(***************************************************************************)

\* sim_getplaneinfo has just been called with a plane info
PlaneAsked ==
  /\ last.op = "sim_getplaneinfo"
  /\ called.op = "sim_getplaneinfo"
  /\ called.arg[2] # NULL

\* C25: sim_getplaneinfo for plane 0 returns the stored plane info; in a
\* build with a non-zero interval, asked for a display d > 0 beyond the
\* context's own, the pointer returned is the stored one plus
\* stride * (interval + height) * d and the display returned is the one asked
\* for; otherwise the pointer is the stored one; for any other plane number
\* it returns -EINVAL
C25_PlaneInfo ==
  PlaneAsked =>
    LET stored == g_fb[called.index].planeinfo
        asked == called.arg[2].display
        d == asked - stored.display
    IN IF called.arg[1] # 0 THEN called.ret.ret = 0 - EINVAL
       ELSE /\ called.ret.ret = 0
            /\ \A field \in DOMAIN stored \ {"fbmem", "display"} :
                 called.ret.pinfo[field] = stored[field]
            /\ IF kconfig.interval # 0 /\ d > 0
                 THEN /\ called.ret.pinfo.fbmem.base = stored.fbmem.base
                      /\ called.ret.pinfo.fbmem.off =
                           stored.fbmem.off
                             + stored.stride
                                 * (kconfig.interval + kconfig.height) * d
                      /\ called.ret.pinfo.display = asked
                 ELSE /\ called.ret.pinfo.fbmem = stored.fbmem
                      /\ called.ret.pinfo.display = stored.display

\* display 0 of a build with 8 lines between the buffers has been asked for
\* plane 0 of display 2: the buffer starts two buffers and intervals further
C25_Witness ==
  /\ PlaneAsked
  /\ kconfig.interval = 8
  /\ called.index = 0
  /\ called.arg[1] = 0
  /\ called.arg[2].display = 2
  /\ called.ret.ret = 0
  /\ called.ret.pinfo.display = 2
  /\ called.ret.pinfo.fbmem.off =
       g_fb[0].planeinfo.stride * 248 * 2

(***************************************************************************)
(* The palette                                                             *)
(***************************************************************************)

\* sim_putcmap has just been called on an initialized display
PaletteSet ==
  /\ last.op = "sim_x11cmap"
  /\ called.op = "sim_putcmap"
  /\ g_fb[called.index].initialized # 0

\* C26: setting count palette entries from first on an initialized display
\* asks the host for one colour per palette index, first, first + 1, ... in
\* this order up to first + count - 1; it returns an error as soon as the
\* host refuses one, asking for none after it, and returns success only if
\* the host granted them all
C26_Palette ==
  PaletteSet =>
    LET first == called.arg[1]
        count == called.arg[2]
        asked == last.calls
        n == Len(asked)
    IN /\ n <= count
       /\ \A k \in 1 .. n :
            /\ asked[k].f = "XAllocColor"
            /\ asked[k].d = called.index
            /\ asked[k].ndx = first + k - 1
            /\ k < n => asked[k].ok
       /\ IF n > 0 /\ ~asked[n].ok
            THEN last.ret < 0
            ELSE last.ret = 0 /\ n = count

\* three colours from index 254 on display 1: the host grants 254, refuses
\* 255, and is not asked for 256
C26_Witness ==
  /\ PaletteSet
  /\ called.index = 1
  /\ called.arg = <<254, 3>>
  /\ Len(last.calls) = 2
  /\ last.calls[1].ndx = 254 /\ last.calls[1].ok
  /\ last.calls[2].ndx = 255 /\ ~last.calls[2].ok
  /\ last.ret = 0 - 1

(***************************************************************************)
(* Failed initializations                                                  *)
(***************************************************************************)

\* this step is a call of up_fbinitialize that returns an error
InitializeFailed ==
  /\ ndraws' = ndraws + 1
  /\ called'.op = "up_fbinitialize"
  /\ called'.ret < 0

\* C27: when up_fbinitialize of display i fails, no driver object is
\* published for i: up_fbgetvplane(i, 0) returns NULL and the tick passes
\* over i; and the call leaves every other display (initialized flag, plane
\* info, window with its pan offset, pan queue, screen), the resources
\* acquired before it and the touch devices (queue and contact state) as
\* they were
C27_FailedInitialize ==
  [][/\ InitializeFailed =>
          /\ \A i \in Displays :
               IF i = called'.index
                 THEN g_fb'[i].initialized = 0
                 ELSE /\ g_fb'[i] = g_fb[i]
                      /\ g_x11_windows'[i] = g_x11_windows[i]
                      /\ paninfo'[i] = paninfo[i]
                      /\ screen'[i] = screen[i]
          /\ \A k \in 1 .. Len(res) : res'[k] = res[k]
          /\ touchvars' = touchvars
          /\ proc' = proc
     /\ last'.op = "up_fbgetvplane" /\ g_fb[last'.d].initialized = 0 =>
          last'.ret = 0
     /\ BodyRan =>
          \A k \in 1 .. Len(last'.calls) :
            g_fb[last'.calls[k].d].initialized # 0]_vars

\* display 0 is in use, panned to line 240, and the touchscreen holds a
\* sample when up_fbinitialize(1) fails; up_fbgetvplane(1, 0) has returned
\* NULL
C27_Witness ==
  /\ called.op = "up_fbinitialize"
  /\ called.index = 1
  /\ called.ret < 0
  /\ last.op = "up_fbgetvplane"
  /\ last.d = 1
  /\ last.ret = 0
  /\ g_fb[0].initialized # 0
  /\ g_fb[1].initialized = 0
  /\ Len(bodies) = 1
  /\ LatestApplied(0)
  /\ paninfo[0][1].yoffset = 240
  /\ Len(posted[0]) = 1

(***************************************************************************)
(* Samples and reports                                                     *)
(***************************************************************************)

\* this step is a call of sim_buttonevent for a device whose event loop does
\* not run
CalledWhileStopped ==
  /\ ndraws' = ndraws + 1
  /\ called'.op = "sim_buttonevent"
  /\ g_simtouchscreen[called'.index].eventloop = 0

\* C28: sim_buttonevent for a display whose touch device is not registered
\* for event processing (never registered, registration failed, or
\* unregistered) does nothing: no slot is written, head, tail, contact and id
\* stay as they are, no worker is scheduled and no report is emitted
C28_StoppedDevice ==
  [][CalledWhileStopped =>
       /\ g_simtouchscreen' = g_simtouchscreen
       /\ work' = work
       /\ reports' = reports
       /\ posted' = posted
       /\ pcP' = "idle"
       /\ pcW' = pcW]_vars

\* device 0 has taken a press and reported it, has been unregistered, and a
\* second sample has been passed to sim_buttonevent since
C28_Witness ==
  /\ called.op = "sim_buttonevent"
  /\ called.index = 0
  /\ called.ret = 1
  /\ ndraws = 2
  /\ Len(posted[0]) = 1
  /\ Len(reports[0]) = 1
  /\ g_simtouchscreen[0].eventloop = 0
  /\ g_simtouchscreen[0].contact = TOUCH_MOVE
  /\ registered = {}

\* bit of the flags word of a report
HasFlag(report, bit) == (report.flags \div bit) % 2 = 1

\* this step is the worker's processing of the sample it has popped for d
Processes(d) ==
  /\ pcW = "pop"
  /\ pcW' = "test"
  /\ wL.dev = d

\* the id that follows id on 8 bits
Successor(id) == IF id = 255 THEN 0 ELSE id + 1

\* C29: the id of a device changes only when a press sample (buttons != 0)
\* is processed while the contact state is UP, and then it is one more than
\* before, modulo 256; the reports of one contact cycle, its DOWN, its MOVEs
\* and its UP, carry the same id; nothing else changes the id: not a release
\* sample, not a further press sample, not a dropped sample, not
\* sim_buttonevent
C29_ContactId ==
  [][\A d \in Displays :
       LET priv == g_simtouchscreen[d]
           edge == /\ Processes(d)
                   /\ wL.s.buttons # 0
                   /\ priv.contact = TOUCH_UP
       IN /\ g_simtouchscreen'[d].id =
               IF edge THEN Successor(priv.id) ELSE priv.id
          /\ \A k \in 2 .. Len(reports'[d]) :
               reports'[d][k].id =
                 IF HasFlag(reports'[d][k], TOUCH_DOWN)
                   THEN Successor(reports'[d][k - 1].id)
                   ELSE reports'[d][k - 1].id]_vars

\* the 256th contact of device 0: a release, a press and a move have been
\* reported with the ids 255, 0 and 0
C29_Witness ==
  /\ Len(reports[0]) = 3
  /\ HasFlag(reports[0][1], TOUCH_UP) /\ reports[0][1].id = 255
  /\ HasFlag(reports[0][2], TOUCH_DOWN) /\ reports[0][2].id = 0
  /\ HasFlag(reports[0][3], TOUCH_MOVE) /\ reports[0][3].id = 0
  /\ g_simtouchscreen[0].id = 0

\* C30: every report of the worker has one contact point with the device's
\* current id, height 1, width 1 and pressure 42; a DOWN or a MOVE report
\* has the x and the y of the sample it was made from, flagged with a valid
\* position and a valid pressure; an UP report is flagged UP with a valid id
\* and no valid position
C30_Report ==
  [][\A d \in Displays :
       reports'[d] # reports[d] =>
         LET report == reports'[d][Len(reports'[d])]
         IN /\ Processes(d)
            /\ reports'[d] = Append(reports[d], report)
            /\ report.npoints = 1
            /\ report.id = g_simtouchscreen'[d].id
            /\ report.h = 1
            /\ report.w = 1
            /\ report.pressure = 42
            /\ HasFlag(report, TOUCH_ID_VALID)
            /\ IF wL.s.buttons # 0
                 THEN /\ HasFlag(report, TOUCH_DOWN)
                           # HasFlag(report, TOUCH_MOVE)
                      /\ ~HasFlag(report, TOUCH_UP)
                      /\ report.x = wL.s.x
                      /\ report.y = wL.s.y
                      /\ HasFlag(report, TOUCH_POS_VALID)
                      /\ HasFlag(report, TOUCH_PRESSURE_VALID)
                 ELSE /\ report.flags = TOUCH_UP + TOUCH_ID_VALID
                      /\ ~HasFlag(report, TOUCH_POS_VALID)]_vars

\* a press at (10, 10), a move to (12, 11) and the release have been
\* reported, in this order
C30_Witness ==
  /\ Len(reports[0]) = 3
  /\ reports[0][1].flags =
       TOUCH_DOWN + TOUCH_ID_VALID + TOUCH_POS_VALID + TOUCH_PRESSURE_VALID
  /\ reports[0][1].x = 10 /\ reports[0][1].y = 10
  /\ reports[0][2].flags =
       TOUCH_MOVE + TOUCH_ID_VALID + TOUCH_POS_VALID + TOUCH_PRESSURE_VALID
  /\ reports[0][2].x = 12 /\ reports[0][2].y = 11
  /\ reports[0][3].flags = TOUCH_UP + TOUCH_ID_VALID
  /\ reports[0][1].id = 2 /\ reports[0][3].id = 2
  /\ drained[0] = posted[0]


(***************************************************************************)
(* The queue is drained                                                    *)
(***************************************************************************)

\* the worker's loop is left
WorkerReturns ==
  pcW = "test" /\ pcW' = "idle"

\* a sample is queued on d and nothing is left to take it off: no
\* sim_buttonevent call is in progress, no worker invocation is pending or
\* running
Stranded(d) ==
  /\ g_simtouchscreen[d].head # g_simtouchscreen[d].tail
  /\ Quiescent

\* C31: with a scheduler that runs the work queued on it, every sample
\* sim_buttonevent accepted is eventually drained and processed by the worker;
\* a worker invocation returns only when head == tail; and no state has a
\* sample queued while no sim_buttonevent call is in progress and no worker
\* invocation is pending or running.
C31_Drained ==
  /\ \A d \in Displays : \A n \in 1 .. (MaxDrains + 1) :
       (Len(posted[d]) >= n) ~> (Len(drained[d]) >= n)
  /\ [][WorkerReturns =>
          g_simtouchscreen[wL.dev].head = g_simtouchscreen[wL.dev].tail]_vars
  /\ [](\A d \in Displays : ~Stranded(d))

\* the worker has processed two samples of one device and returned, the
\* second accepted while the worker ran
C31_Witness ==
  \E d \in Displays :
    /\ Len(drained[d]) = 2
    /\ Len(posted[d]) = 2
    /\ Quiescent
    /\ g_simtouchscreen[d].head = 2
    /\ g_simtouchscreen[d].tail = 2

(***************************************************************************)
(* The contact state                                                       *)
(***************************************************************************)

\* the last sample the worker processed for d was a press
ContactActive(d) ==
  /\ drained[d] # <<>>
  /\ drained[d][Len(drained[d])].buttons # 0

\* C34: on a registered device, from the registration on, contact is one of
\* TOUCH_UP, TOUCH_DOWN and TOUCH_MOVE, and it is TOUCH_UP whenever no contact
\* is active.
C34_ContactState ==
  \A d \in Displays :
    g_simtouchscreen[d].eventloop # 0 =>
      /\ g_simtouchscreen[d].contact \in {TOUCH_UP, TOUCH_DOWN, TOUCH_MOVE}
      /\ ~ContactActive(d) => g_simtouchscreen[d].contact = TOUCH_UP

(***************************************************************************)
(* Reports and unregistration                                              *)
(***************************************************************************)

\* touch_event is called for d in this step
Reported(d) ==
  Len(reports'[d]) > Len(reports[d])

\* C38: once sim_tsc_uninitialize has returned, no report is given to the
\* input driver for a device it unregistered, whether samples were queued or
\* a worker invocation was pending or running when it was called.
C38_NoReportAfterUnregister ==
  [][\A d \in Displays :
       g_simtouchscreen[d].eventloop = 0 => ~Reported(d)]_vars

(***************************************************************************)
(* The checkpoint and the buffers                                          *)
(***************************************************************************)

\* C32: from every return of the acquisition until release, a window's
\* framebuffer is non-null exactly when its shmcheckpoint is at least 2, also
\* when malloc or XCreateImage fails on the degraded path.
C32_PrimaryBuffer ==
  proc = "running" =>
    \A d \in Displays :
      (g_x11_windows[d].framebuffer # NULL)
        <=> (g_x11_windows[d].shmcheckpoint >= 2)

\* the acquisition step of sim_x11mapsharedmem that hands out a resource of
\* kind, as the value of shmcheckpoint after it; 0 for what no step of the
\* ladder hands out
StepOf(kind) ==
  CASE kind \in {"shmimage", "image"} -> 2
    [] kind = "seg" -> 3
    [] kind = "shmat" -> 4
    [] kind = "xattach" -> 5
    [] OTHER -> 0

\* the highest step whose resource window d holds
HighestHeld(d) ==
  LET steps == {0} \cup { StepOf(res[i].kind) :
                            i \in { j \in 1 .. Len(res) :
                                      res[j].live /\ res[j].owner = d } }
  IN CHOOSE s \in steps : \A t \in steps : t <= s

\* C33: in every state a window's shmcheckpoint is in 0..5 and shows the
\* highest acquisition step whose resource the window holds: it has been
\* raised only past steps that succeeded and lowered only past steps whose
\* resources were released.
C33_Checkpoint ==
  \A d \in Displays :
    LET checkpoint == g_x11_windows[d].shmcheckpoint
    IN /\ checkpoint \in 0 .. 5
       /\ IF HighestHeld(d) >= 2
            THEN checkpoint = HighestHeld(d)
            ELSE checkpoint <= 1

(***************************************************************************)
(* The size of the framebuffer                                             *)
(***************************************************************************)

\* the size of the shared-memory block of the build on the host:
\* bytes_per_line of the normalised depth, times the lines of the buffers
\* and of the gaps between them
BlockSize ==
  BytesPerLine(NormalisedDepth(xserver.depth), kconfig.width)
    * (kconfig.height * kconfig.fbcount
         + kconfig.interval * (kconfig.fbcount - 1))

\* C35: for every host depth, width, height, buffer count and interval, the
\* framebuffer a window gets, malloc'ed on the degraded path or attached on
\* the efficient path, has bytes_per_line * (height * fbcount + interval *
\* (fbcount - 1)) bytes, bytes_per_line being that of the normalised depth.
C35_BufferSize ==
  \A d \in Displays :
    g_x11_windows[d].framebuffer # NULL =>
      res[g_x11_windows[d].framebuffer.base].size = BlockSize

(***************************************************************************)
(* Release is idempotent                                                   *)
(***************************************************************************)

\* sim_x11uninit runs in this step
Releases ==
  /\ last'.op = "sim_x11uninit"
  /\ proc' # proc \/ ndraws' # ndraws \/ atexit_handlers' # atexit_handlers

\* the calls sim_x11uninit made for window d in this step
ReleaseCalls(d) ==
  SelectSeq(last'.calls, LAMBDA c : c.d = d)

\* C36: a run of sim_x11uninit that follows a run of it makes no host call
\* and no allocator call and changes nothing, and a run makes no call for a
\* window whose shmcheckpoint is 0 and leaves that window as it is, however
\* many times initialize was called before the process exits.
C36_ReleaseIdempotent ==
  [][Releases =>
       /\ last.op = "sim_x11uninit" =>
            /\ last'.calls = <<>>
            /\ UNCHANGED <<g_x11_windows, g_fb, res, bad>>
       /\ \A d \in Displays :
            g_x11_windows[d].shmcheckpoint = 0 =>
              /\ ReleaseCalls(d) = <<>>
              /\ g_x11_windows'[d] = g_x11_windows[d]]_vars

(***************************************************************************)
(* A display initialized again                                             *)
(***************************************************************************)

\* up_fbinitialize is called in this step for a display that is marked
\* initialized
ReInitialized ==
  /\ ndraws' # ndraws
  /\ called'.op = "up_fbinitialize"
  /\ called'.index \in Displays
  /\ g_fb[called'.index].initialized # 0

\* C37: up_fbinitialize of a display that is marked initialized returns OK,
\* makes no host call and no allocator call (no connection is opened, no
\* resource acquired) and leaves the display's plane info, video info,
\* power, pan offset and shmcheckpoint as they are, like everything else of
\* the framebuffers and the windows.
C37_InitializedAgain ==
  [][ReInitialized =>
       /\ last'.op = "up_fbinitialize"
       /\ last'.ret = 0
       /\ last'.calls = <<>>
       /\ UNCHANGED <<g_fb, g_x11_windows, res, bad, ninits, nfaults,
                      atexit_registered, paninfo, screen>>]_vars

\* display 0 was initialized, panned by a tick and then initialized again:
\* it is still panned, on the buffers of the first call
C37_Witness ==
  /\ called.op = "up_fbinitialize"
  /\ called.index = 0
  /\ called.ret = 0
  /\ ndraws = 2
  /\ ninits = 1
  /\ last.op = "up_fbinitialize"
  /\ last.calls = <<>>
  /\ g_fb[0].initialized = 1
  /\ g_fb[0].power = 100
  /\ g_x11_windows[0].offset # 0
  /\ g_x11_windows[0].shmcheckpoint = 5


\* the window of display d converts: host depth 32 under a 16-bit build
Converting(d) ==
  g_x11_windows[d].fbbpp = 32 /\ kconfig.bpp = 16

\* C39: on a host of depth 32 under a 16-bit build, after an up_fbinitialize
\* that succeeded and whatever sim_x11setoffset and sim_x11update calls
\* follow, the image of the display starts at framebuffer + 2 * offset, and
\* a sim_x11update that returned left at the image's start the conversion of
\* the pixel at trans_framebuffer + offset
C39_ImageFollowsOffset ==
  \A d \in Displays :
    (proc = "running" /\ g_fb[d].initialized # 0 /\ Converting(d))
    => LET w == g_x11_windows[d]
       IN /\ w.image \in 1 .. Len(res)
          /\ res[w.image].data = Plus(w.framebuffer, 2 * w.offset)
          /\ (Updated /\ last.d = d)
             => LET src == Read(Plus(w.trans_framebuffer, w.offset))
                IN src # Unwritten
                   => Read(res[w.image].data) = Pixel32(src)


\* the connections to the host opened for display d and not closed
OpenConnections(d) ==
  { id \in 1 .. Len(res) :
      res[id].kind = "conn" /\ res[id].owner = d /\ res[id].live }

\* exit() has run sim_x11uninit
ReleasedAtExit ==
  proc = "exited" /\ last.op = "sim_x11uninit"

\* C40: whatever up_fbinitialize calls, succeeding or failing, and
\* up_fbuninitialize calls were made on a display, at most one connection to
\* the host opened for it is open at a time, and none is open once exit()
\* has run sim_x11uninit
C40_OneConnection ==
  \A d \in Displays :
    /\ Cardinality(OpenConnections(d)) <= 1
    /\ ReleasedAtExit => OpenConnections(d) = {}

=========================================================================
